---- MODULE Spec2Model ----
(***************************************************************************)
(* Model of veusz/document/doc.py: the Document class (change tracking,   *)
(* update suspension, dataset store, undo/redo/batch history).            *)
(*                                                                         *)
(* The methods of Document are written as operators over a record d that  *)
(* holds the fields of the Document object; every method returns          *)
(* [d |-> the document afterwards, exc |-> "none" or the exception        *)
(* raised].  One action per public method applies the operator to the     *)
(* current state.                                                          *)
(***************************************************************************)
EXTENDS Integers, Sequences, FiniteSets, TLC

(* ---------------------------------------------------------------------- *)
(* Bounds of the model                                                     *)
(* ---------------------------------------------------------------------- *)
\* longest sequence of calls issued in Spec
MaxCalls == 4
\* deepest nesting of suspendUpdates
MaxDepth == 2
\* deepest nesting of batchHistory
MaxBatch == 2
\* operation objects 0..PoolSize may be applied, in any order, repeatedly
PoolSize == 2
\* number of operation objects applied one after another in SpecHist
MaxOps == 11

\* calls are issued in SpecHist only while changeset is below this cap
MaxHistChangeset == 80
MaxParts == 2
MaxTreeCalls == 3
\* the number of parts after the leading '/' of a path given to
\* resolveFullWidgetPath or resolveFullSettingPath
MaxFullParts == 3
MaxStoreCalls == 5
\* the number of calls in a run that reloads linked files
MaxReloadCalls == 4
\* the number of calls in a run that imports through plugins
MaxImportCalls == 4
\* the number of calls in a run that tags datasets
MaxTagCalls == 4
\* the number of calls in a run with operations that fail
MaxFailCalls == 5
\* calls are made while changeset is below this, in a run that fills the
\* history
MaxCapChangeset == 40
\* calls made in a run that saves the document and edits it
MaxCleanCalls == 4
\* dataset objects the caller holds, and calls made in a run that stores them
MaxObjects == 2
MaxRefCalls == 4

\* applyOperation keeps historyundo[-9:] and adds the new operation
HistoryKeep == 9

(* ---------------------------------------------------------------------- *)
(* Values                                                                  *)
(* ---------------------------------------------------------------------- *)
DsNames == {"a", "b"}
AllNames == DsNames \cup {"c"}
SortedNames == <<"a", "b", "c">>
LinkedFiles == {"f1"}
\* a dataset object: its payload and its LinkedFile ("none" when not linked)
Tags == {"t1", "t2"}
Datasets == {[val |-> 1, linked |-> "none", tags |-> {}],
             [val |-> 2, linked |-> "f1", tags |-> {"t1"}]}
NullDs == [val |-> 0, linked |-> "none", tags |-> {}]
EmptyData == [n \in {} |-> NullDs]
AllDatasets == Datasets \cup {[val |-> 3, linked |-> "none",
                                tags |-> {"t1", "t2"}]}

Last(s) == s[Len(s)]
Front(s) == SubSeq(s, 1, Len(s) - 1)
Min(a, b) == IF a <= b THEN a ELSE b
Max(a, b) == IF a >= b THEN a ELSE b

\* identities of the OperationDataImportPlugin objects ImportFilePlugin makes
ImportOps == 100 .. 104
\* identities of the Operation objects a caller may hold
AllOps == (0 .. Max(MaxOps, PoolSize)) \cup ImportOps
\* an Operation object before its do has run: no saved attributes
NoState == [done |-> FALSE, had |-> FALSE, old |-> NullDs, wname |-> 0]

VARIABLES
    changeset,       \* Document.changeset
    modified,        \* Document.modified
    data,            \* Document.data: dataset name -> dataset
    basewidget,      \* Document.basewidget: the root widget and its children
    filename,        \* Document.filename
    suspendupdates,  \* Document.suspendupdates: stack of changeset snapshots
    historybatch,    \* Document.historybatch: stack of open OperationMultiple
    historyundo,     \* Document.historyundo
    historyredo,     \* Document.historyredo
    ops,             \* attributes saved inside each Operation object by do
    emitted,         \* signalModified emissions of the last call, in order
    last,            \* the last call: its name, its operation, its exception
    run,             \* bookkeeping of the current run of applies then undos
    scope,           \* bookkeeping of the current outermost suspension
    written,         \* what the last call wrote to the file object it was given
    opstatus,        \* bookkeeping of what was done with each Operation object
    calls            \* number of calls issued so far

vars == <<changeset, modified, data, basewidget, filename, suspendupdates,
          historybatch, historyundo, historyredo, ops, emitted, last, run,
          scope, written, opstatus, calls>>

\* nothing written: out.text is the script written to the file object (the
\* 'document' dataset of an HDF5 file), out.tags the Tags group and
\* out.payload the Data group of an HDF5 file
NoOut == [text |-> <<>>, tags |-> [t \in {} |-> <<>>],
          payload |-> [n \in {} |-> 0]]

\* nothing returned: res.reloads lists the reloadLinks calls made, each with
\* the number of notifications emitted before it; res.read and res.errors are
\* the pair reloadLinkedDatasets returns; res.logged lists the messages
\* passed to Document.log; res.visits lists the calls walkNodes made to tocall
\* res.outnames and res.outcustoms are the attributes of the Operation
\* object that ImportFilePlugin made and returns
NoRes == [reloads |-> <<>>, read |-> <<>>, errors |-> [n \in {} |-> 0],
          logged |-> <<>>, visits |-> <<>>, outnames |-> <<>>,
          outcustoms |-> <<>>, tags |-> <<>>]

\* the Document object as a record; emits collects this call's emissions,
\* out what it wrote and res what it returned
Doc ==
    [changeset |-> changeset, modified |-> modified, data |-> data,
     basewidget |-> basewidget, filename |-> filename,
     suspendupdates |-> suspendupdates,
     historybatch |-> historybatch, historyundo |-> historyundo,
     historyredo |-> historyredo, ops |-> ops, emits |-> <<>>,
     out |-> NoOut, res |-> NoRes]

Ok(d) == [d |-> d, exc |-> "none"]
Raise(d, e) == [d |-> d, exc |-> e]

(* ---------------------------------------------------------------------- *)
(* Change tracking and update suspension                                   *)
(* ---------------------------------------------------------------------- *)
\* signalModified.emit(ismodified): an emission records the suspend depth it
\* was sent at, and the dataset store and the history its listeners find
Emission(d, ismodified) ==
    [ismodified |-> ismodified, depth |-> Len(d.suspendupdates),
     data |-> d.data, undo |-> d.historyundo, redo |-> d.historyredo,
     batch |-> d.historybatch]

\* setModified emitting whether or not updates are suspended
setModified_alwaysEmit(d, ismodified) ==
    LET d1 == [d EXCEPT !.modified = ismodified, !.changeset = @ + 1]
    IN  [d1 EXCEPT !.emits = Append(@, Emission(d1, ismodified))]

\* setModified leaving the modified flag as it is
setModified_keepFlag(d, ismodified) ==
    LET d1 == [d EXCEPT !.changeset = @ + 1]
    IN  IF Len(d1.suspendupdates) = 0
        THEN [d1 EXCEPT !.emits = Append(@, Emission(d1, ismodified))]
        ELSE d1

\* Document.setModified
setModified(d, ismodified) ==
    LET d1 == [d EXCEPT !.modified = ismodified, !.changeset = @ + 1]
    IN  IF Len(d1.suspendupdates) = 0
        THEN [d1 EXCEPT !.emits = Append(@, Emission(d1, ismodified))]
        ELSE d1

\* Document.suspendUpdates
suspendUpdates(d) ==
    [d EXCEPT !.suspendupdates = Append(@, d.changeset)]

\* enableUpdates that does not compare the snapshot with changeset
enableUpdates_noCompare(d) ==
    LET d1 == [d EXCEPT !.suspendupdates = Front(@)]
    IN  IF Len(d1.suspendupdates) = 0
        THEN setModified([d1 EXCEPT !.changeset = @ + 1], TRUE)
        ELSE d1

\* enableUpdates leaving the bump of changeset to setModified
enableUpdates_noBump(d) ==
    LET cs == Last(d.suspendupdates)
        d1 == [d EXCEPT !.suspendupdates = Front(@)]
    IN  IF Len(d1.suspendupdates) = 0 /\ cs # d1.changeset
        THEN setModified(d1, TRUE)
        ELSE d1

\* Document.enableUpdates; the caller guarantees a non-empty stack
enableUpdates(d) ==
    LET cs == Last(d.suspendupdates)
        d1 == [d EXCEPT !.suspendupdates = Front(@)]
    IN  IF Len(d1.suspendupdates) = 0 /\ cs # d1.changeset
        THEN setModified([d1 EXCEPT !.changeset = @ + 1], TRUE)
        ELSE d1

\* DocSuspend.__enter__
DocSuspendEnter(d) == suspendUpdates(d)

\* a context manager that releases on normal exit only
DocSuspendExit_normalOnly(d, exc) ==
    IF exc = "none" THEN enableUpdates(d) ELSE d

\* DocSuspend.__exit__: runs on normal and on exceptional exit alike
DocSuspendExit(d, exc) == enableUpdates(d)

(* ---------------------------------------------------------------------- *)
(* Dataset store                                                           *)
(* ---------------------------------------------------------------------- *)
DictSet(f, k, v) == [n \in DOMAIN f \cup {k} |-> IF n = k THEN v ELSE f[n]]
\* dict.update
DictUpdate(f, g) ==
    [k \in DOMAIN f \cup DOMAIN g |-> IF k \in DOMAIN g THEN g[k] ELSE f[k]]
DictDel(f, k) == [n \in DOMAIN f \ {k} |-> f[n]]

\* a dataset value that carries an id stands for an object that several names
\* can refer to and whose attributes username and document are kept; a value
\* without an id stands for an object that is passed to the document once
IsObject(ds) == "id" \in DOMAIN ds

\* an assignment to the attributes of the object ds is seen through every
\* name of the store that refers to the same object
Aliases(store, ds) ==
    IF IsObject(ds)
    THEN [n \in DOMAIN store |->
             IF IsObject(store[n]) /\ store[n].id = ds.id THEN ds
             ELSE store[n]]
    ELSE store

\* Document.setData: dataset.document = self; dataset.username = name
setData(d, name, dataset) ==
    LET ds == IF IsObject(dataset)
              THEN [dataset EXCEPT !.document = "self", !.username = name]
              ELSE dataset
    IN  setModified([d EXCEPT !.data = Aliases(DictSet(@, name, ds), ds)],
                    TRUE)

\* Document.deleteData
deleteData(d, name) ==
    IF name \in DOMAIN d.data
    THEN setModified([d EXCEPT !.data = DictDel(@, name)], TRUE)
    ELSE d

\* renameDataset copying the dataset to the new name and keeping the old one
renameDataset_keepOld(d, oldname, newname) ==
    IF oldname \notin DOMAIN d.data
    THEN Raise(d, "KeyError")
    ELSE LET ds == d.data[oldname]
         IN  Ok(setModified([d EXCEPT !.data = DictSet(@, newname, ds)], TRUE))

\* renameDataset written as deleteData(oldname) then setData(newname, d)
renameDataset_deleteThenSet(d, oldname, newname) ==
    IF oldname \notin DOMAIN d.data
    THEN Raise(d, "KeyError")
    ELSE Ok(setData(deleteData(d, oldname), newname, d.data[oldname]))

\* renameDataset marking the document modified before it looks up oldname
renameDataset_notifyFirst(d, oldname, newname) ==
    LET d1 == setModified(d, TRUE)
    IN  IF oldname \notin DOMAIN d1.data
        THEN Raise(d1, "KeyError")
        ELSE Ok([d1 EXCEPT !.data = DictSet(DictDel(@, oldname), newname,
                                            d1.data[oldname])])

\* Document.renameDataset
renameDataset(d, oldname, newname) ==
    IF oldname \notin DOMAIN d.data
    THEN Raise(d, "KeyError")
    ELSE LET old == d.data[oldname]
             ds  == IF IsObject(old) THEN [old EXCEPT !.username = newname]
                    ELSE old
         IN  Ok(setModified(
                 [d EXCEPT !.data = Aliases(DictSet(DictDel(@, oldname),
                                                    newname, ds), ds)],
                 TRUE))

(* ---------------------------------------------------------------------- *)
(* Widget tree                                                             *)
(* ---------------------------------------------------------------------- *)
ChildNames(w) == {w.children[i].name : i \in 1 .. Len(w.children)}

\* the name the widget factory gives a new child: the first one not in use
NewName(w) == CHOOSE n \in 1 .. Len(w.children) + 1 :
                  /\ n \notin ChildNames(w)
                  /\ \A m \in 1 .. n - 1 : m \in ChildNames(w)

NewWidget(typename, name, children) ==
    [typename |-> typename, name |-> name, children |-> children]

\* widgetfactory.thefactory.makeWidget(typename, parent): appended last
makeWidget(parent, typename, children) ==
    [parent EXCEPT !.children =
        Append(@, NewWidget(typename, NewName(parent), children))]

RECURSIVE RemoveNamed(_, _)
RemoveNamed(s, name) ==
    IF s = <<>> THEN <<>>
    ELSE IF Head(s).name = name THEN Tail(s)
    ELSE <<Head(s)>> \o RemoveNamed(Tail(s), name)

EmptyRoot == [typename |-> "document", name |-> 0, children |-> <<>>]

(* ---------------------------------------------------------------------- *)
(* Operation objects (do / undo pairs handed to applyOperation)            *)
(* ---------------------------------------------------------------------- *)
Ds1 == [val |-> 1, linked |-> "none", tags |-> {}]
Ds2 == [val |-> 2, linked |-> "f1", tags |-> {"t1"}]

\* a record of the results of a plugin
Result(kind, name, val) == [kind |-> kind, name |-> name, val |-> val]

\* the parameters an OperationDataImportPlugin object was constructed with:
\* whether the plugin is registered, whether its doImport raises, the
\* records it returns, and whether the datasets are to be linked
ImportDef(id) ==
    LET p == [kind |-> "import", name |-> "", ds |-> NullDs,
              registered |-> TRUE, raises |-> FALSE, linked |-> FALSE,
              results |-> <<>>]
    IN  CASE id = 100 -> [p EXCEPT !.registered = FALSE]
          [] id = 101 -> [p EXCEPT !.raises = TRUE]
          [] id = 102 -> [p EXCEPT !.results =
                             <<Result("Dataset1D", "a", 1)>>]
          [] id = 103 -> [p EXCEPT !.results =
                             <<Result("Constant", "k", 1),
                               Result("Dataset1D", "a", 1),
                               Result("Unknown", "b", 1)>>]
          [] OTHER    -> [p EXCEPT !.linked = TRUE, !.results =
                             <<Result("Dataset1D", "b", 2),
                               Result("Function", "f", 1),
                               Result("Dataset1D", "a", 2)>>]

\* what the Operation object with identity id was constructed to do
OpDef(id) ==
    IF id \in ImportOps THEN ImportDef(id) ELSE
    CASE id = 0     -> [kind |-> "raise", name |-> "a", ds |-> Ds1]
      [] id % 4 = 1 -> [kind |-> "set", name |-> "a",
                        ds |-> IF (id \div 4) % 2 = 0 THEN Ds1 ELSE Ds2]
      [] id % 4 = 2 -> [kind |-> "addwidget", name |-> "", ds |-> NullDs]
      [] id % 4 = 3 -> [kind |-> "delete", name |-> "a", ds |-> NullDs]
      [] OTHER      -> [kind |-> "nop", name |-> "", ds |-> NullDs]

\* the loop "for d in results" of doImport; a dataset made from a linked
\* import is linked to the LinkedFilePlugin of the import
RECURSIVE convertResults(_, _, _)
convertResults(d, p, results) ==
    IF results = <<>> THEN [d |-> d, exc |-> "none", outdatasets |-> EmptyData]
    ELSE LET r == Head(results) IN
         IF r.kind \in {"Constant", "Function"}
         THEN convertResults(
                  [d EXCEPT !.res.outcustoms =
                      Append(@, [kind |-> r.kind, name |-> r.name,
                                 val |-> r.val])],
                  p, Tail(results))
         ELSE IF r.kind # "Dataset1D"
         THEN [d |-> d, exc |-> "RuntimeError", outdatasets |-> EmptyData]
         ELSE LET ds == [val |-> r.val,
                         linked |-> IF p.linked THEN "f1" ELSE "none",
                         tags |-> {}]
                  rest == convertResults(d, p, Tail(results))
              IN  [rest EXCEPT !.outdatasets =
                      DictUpdate([n \in {r.name} |-> ds], @)]

\* OperationDataImportPlugin.doImport: the plugin is looked up by name and
\* run, and its results are converted
doImport(d, p) ==
    IF ~p.registered
    THEN [d |-> d, exc |-> "ValueError", outdatasets |-> EmptyData]
    ELSE IF p.raises
    THEN [d |-> d, exc |-> "PluginError", outdatasets |-> EmptyData]
    ELSE convertResults(d, p, p.results)

\* document.setData for each of the names, in order
RECURSIVE setAll(_, _, _)
setAll(d, names, store) ==
    IF names = <<>> THEN d
    ELSE setAll(setData(d, Head(names), store[Head(names)]), Tail(names),
                store)

\* OperationDataImportBase.do: the output attributes are emptied, doImport
\* is run and the datasets it made are put into the document
importDo(d, op) ==
    LET d1 == [d EXCEPT !.res.outnames = <<>>, !.res.outcustoms = <<>>,
                        !.ops[op] = [NoState EXCEPT !.done = TRUE]]
        r == doImport(d1, OpDef(op))
        names == SelectSeq(SortedNames, LAMBDA n : n \in DOMAIN r.outdatasets)
    IN  IF r.exc # "none" THEN Raise(r.d, r.exc)
        ELSE Ok([setAll(r.d, names, r.outdatasets)
                    EXCEPT !.res.outnames = names])

\* operation.do(document)
opDo(d, op) ==
    LET def == OpDef(op) IN
    CASE def.kind = "import" -> importDo(d, op)
      [] def.kind = "set" ->
           LET had == def.name \in DOMAIN d.data
               d1 == [d EXCEPT !.ops[op] =
                        [done |-> TRUE, had |-> had,
                         old |-> IF had THEN d.data[def.name] ELSE NullDs,
                         wname |-> 0]]
           IN  Ok(setData(d1, def.name, def.ds))
      [] def.kind = "delete" ->
           IF def.name \notin DOMAIN d.data
           THEN Raise(d, "KeyError")
           ELSE LET d1 == [d EXCEPT !.ops[op] =
                             [done |-> TRUE, had |-> TRUE,
                              old |-> d.data[def.name], wname |-> 0]]
                IN  Ok(deleteData(d1, def.name))
      [] def.kind = "addwidget" ->
           Ok([d EXCEPT !.ops[op] = [done |-> TRUE, had |-> FALSE,
                                     old |-> NullDs,
                                     wname |-> NewName(d.basewidget)],
                        !.basewidget = makeWidget(@, "page", <<>>)])
      [] def.kind = "nop" ->
           Ok([d EXCEPT !.ops[op] = [NoState EXCEPT !.done = TRUE]])
      [] OTHER ->
           Raise(setData(d, def.name, def.ds), "RuntimeError")

\* operation.undo(document)
opUndo(d, op) ==
    LET def == OpDef(op)
        st == d.ops[op]
    IN
    CASE def.kind = "set" ->
           IF st.had THEN Ok(setData(d, def.name, st.old))
           ELSE Ok(deleteData(d, def.name))
      [] def.kind = "delete" -> Ok(setData(d, def.name, st.old))
      [] def.kind = "addwidget" ->
           IF st.wname \in ChildNames(d.basewidget)
           THEN Ok([d EXCEPT !.basewidget.children =
                               RemoveNamed(@, st.wname)])
           ELSE Raise(d, "ValueError")
      [] def.kind = "nop" -> Ok(d)
      [] OTHER -> Raise(d, "RuntimeError")

(* ---------------------------------------------------------------------- *)
(* History                                                                 *)
(* ---------------------------------------------------------------------- *)
\* the Python slice s[-k:]
Slice(s, k) == SubSeq(s, Max(1, Len(s) - k + 1), Len(s))

\* Document.clearHistory
clearHistory(d) ==
    [d EXCEPT !.historybatch = <<>>, !.historyundo = <<>>,
              !.historyredo = <<>>]

\* applyOperation keeping one entry too many (historyundo[-10:])
applyOperation_keepTen(d, op) ==
    LET d1 == DocSuspendEnter(d)
        r  == opDo(d1, op)
    IN  IF r.exc # "none"
        THEN Raise(DocSuspendExit(r.d, r.exc), r.exc)
        ELSE LET d2 == DocSuspendExit([r.d EXCEPT !.changeset = @ + 1],
                                      "none")
                 d3 == IF Len(d2.historybatch) > 0
                       THEN [d2 EXCEPT
                               !.historybatch[Len(d2.historybatch)] =
                                   Append(@, op)]
                       ELSE [d2 EXCEPT !.historyundo =
                               Slice(@, HistoryKeep + 1) \o <<op>>]
             IN  Ok([d3 EXCEPT !.historyredo = <<>>])

\* applyOperation that never discards an entry
applyOperation_keepAll(d, op) ==
    LET d1 == DocSuspendEnter(d)
        r  == opDo(d1, op)
    IN  IF r.exc # "none"
        THEN Raise(DocSuspendExit(r.d, r.exc), r.exc)
        ELSE LET d2 == DocSuspendExit([r.d EXCEPT !.changeset = @ + 1],
                                      "none")
                 d3 == IF Len(d2.historybatch) > 0
                       THEN [d2 EXCEPT
                               !.historybatch[Len(d2.historybatch)] =
                                   Append(@, op)]
                       ELSE [d2 EXCEPT !.historyundo = Append(@, op)]
             IN  Ok([d3 EXCEPT !.historyredo = <<>>])

\* applyOperation without its own "self.changeset += 1"
applyOperation_noBump(d, op) ==
    LET d1 == DocSuspendEnter(d)
        r  == opDo(d1, op)
    IN  IF r.exc # "none"
        THEN Raise(DocSuspendExit(r.d, r.exc), r.exc)
        ELSE LET d2 == DocSuspendExit(r.d, "none")
                 d3 == IF Len(d2.historybatch) > 0
                       THEN [d2 EXCEPT
                               !.historybatch[Len(d2.historybatch)] =
                                   Append(@, op)]
                       ELSE [d2 EXCEPT !.historyundo =
                               Slice(@, HistoryKeep) \o <<op>>]
             IN  Ok([d3 EXCEPT !.historyredo = <<>>])

\* applyOperation clearing the redo stack in standard mode only
applyOperation_redoKeptInBatch(d, op) ==
    LET d1 == DocSuspendEnter(d)
        r  == opDo(d1, op)
    IN  IF r.exc # "none"
        THEN Raise(DocSuspendExit(r.d, r.exc), r.exc)
        ELSE LET d2 == DocSuspendExit([r.d EXCEPT !.changeset = @ + 1],
                                      "none")
             IN  IF Len(d2.historybatch) > 0
                 THEN Ok([d2 EXCEPT
                            !.historybatch[Len(d2.historybatch)] =
                                Append(@, op)])
                 ELSE Ok([d2 EXCEPT !.historyundo =
                                      Slice(@, HistoryKeep) \o <<op>>,
                                    !.historyredo = <<>>])

applyOperation_outermostBatch(d, op) ==
    LET d1 == DocSuspendEnter(d)
        r  == opDo(d1, op)
    IN  IF r.exc # "none"
        THEN Raise(DocSuspendExit(r.d, r.exc), r.exc)
        ELSE LET d2 == DocSuspendExit([r.d EXCEPT !.changeset = @ + 1],
                                      "none")
                 d3 == IF Len(d2.historybatch) > 0
                       THEN [d2 EXCEPT !.historybatch[1] = Append(@, op)]
                       ELSE [d2 EXCEPT !.historyundo =
                               Slice(@, HistoryKeep) \o <<op>>]
             IN  Ok([d3 EXCEPT !.historyredo = <<>>])

\* applyOperation that never clears the redo stack
applyOperation_redoKept(d, op) ==
    LET d1 == DocSuspendEnter(d)
        r  == opDo(d1, op)
    IN  IF r.exc # "none"
        THEN Raise(DocSuspendExit(r.d, r.exc), r.exc)
        ELSE LET d2 == DocSuspendExit([r.d EXCEPT !.changeset = @ + 1],
                                      "none")
             IN  IF Len(d2.historybatch) > 0
                 THEN Ok([d2 EXCEPT
                            !.historybatch[Len(d2.historybatch)] =
                                Append(@, op)])
                 ELSE Ok([d2 EXCEPT !.historyundo =
                            Slice(@, HistoryKeep) \o <<op>>])

\* applyOperation clearing the redo stack before it runs the operation
applyOperation_redoClearedFirst(d, op) ==
    LET d1 == DocSuspendEnter([d EXCEPT !.historyredo = <<>>])
        r  == opDo(d1, op)
    IN  IF r.exc # "none"
        THEN Raise(DocSuspendExit(r.d, r.exc), r.exc)
        ELSE LET d2 == DocSuspendExit([r.d EXCEPT !.changeset = @ + 1],
                                      "none")
             IN  IF Len(d2.historybatch) > 0
                 THEN Ok([d2 EXCEPT
                            !.historybatch[Len(d2.historybatch)] =
                                Append(@, op)])
                 ELSE Ok([d2 EXCEPT !.historyundo =
                            Slice(@, HistoryKeep) \o <<op>>])

\* applyOperation running the operation outside any suspension of its own
applyOperation_noSuspend(d, op) ==
    LET r == opDo(d, op)
    IN  IF r.exc # "none"
        THEN Raise(r.d, r.exc)
        ELSE LET d2 == [r.d EXCEPT !.changeset = @ + 1]
                 d3 == IF Len(d2.historybatch) > 0
                       THEN [d2 EXCEPT
                               !.historybatch[Len(d2.historybatch)] =
                                   Append(@, op)]
                       ELSE [d2 EXCEPT !.historyundo =
                               Slice(@, HistoryKeep) \o <<op>>]
             IN  Ok([d3 EXCEPT !.historyredo = <<>>])

\* applyOperation recording the operation before it leaves the suspension
applyOperation_recordInside(d, op) ==
    LET d1 == DocSuspendEnter(d)
        r  == opDo(d1, op)
    IN  IF r.exc # "none"
        THEN Raise(DocSuspendExit(r.d, r.exc), r.exc)
        ELSE LET d2 == [r.d EXCEPT !.changeset = @ + 1]
                 d3 == IF Len(d2.historybatch) > 0
                       THEN [d2 EXCEPT
                               !.historybatch[Len(d2.historybatch)] =
                                   Append(@, op)]
                       ELSE [d2 EXCEPT !.historyundo =
                               Slice(@, HistoryKeep) \o <<op>>]
             IN  Ok(DocSuspendExit([d3 EXCEPT !.historyredo = <<>>], "none"))

\* Document.applyOperation
applyOperation(d, op) ==
    LET d1 == DocSuspendEnter(d)
        r  == opDo(d1, op)
    IN  IF r.exc # "none"
        THEN Raise(DocSuspendExit(r.d, r.exc), r.exc)
        ELSE LET d2 == DocSuspendExit([r.d EXCEPT !.changeset = @ + 1],
                                      "none")
                 d3 == IF Len(d2.historybatch) > 0
                       THEN [d2 EXCEPT
                               !.historybatch[Len(d2.historybatch)] =
                                   Append(@, op)]
                       ELSE [d2 EXCEPT !.historyundo =
                               Slice(@, HistoryKeep) \o <<op>>]
             IN  Ok([d3 EXCEPT !.historyredo = <<>>])

\* Document.batchHistory; batch is TRUE for an OperationMultiple, FALSE for
\* None
batchHistory(d, batch) ==
    IF batch
    THEN Ok([d EXCEPT !.historybatch = Append(@, <<>>)])
    ELSE IF Len(d.historybatch) = 0
         THEN Raise(d, "IndexError")
         ELSE Ok([d EXCEPT !.historybatch = Front(@)])

\* undoOperation taking the oldest entry (historyundo.pop(0))
undoOperation_popOldest(d) ==
    IF Len(d.historyundo) = 0
    THEN Raise(d, "IndexError")
    ELSE LET op == Head(d.historyundo)
             d0 == [d EXCEPT !.historyundo = Tail(@)]
             d1 == DocSuspendEnter(d0)
             r  == opUndo(d1, op)
         IN  IF r.exc # "none"
             THEN Raise(DocSuspendExit(r.d, r.exc), r.exc)
             ELSE LET d2 == DocSuspendExit(
                                [r.d EXCEPT !.changeset = @ + 1], "none")
                  IN  Ok([d2 EXCEPT !.historyredo = Append(@, op)])

\* undoOperation counting the change before it takes the operation
undoOperation_bumpFirst(d) ==
    LET d1 == [DocSuspendEnter(d) EXCEPT !.changeset = @ + 1]
    IN  IF Len(d.historyundo) = 0
        THEN Raise(DocSuspendExit(d1, "IndexError"), "IndexError")
        ELSE LET op == Last(d.historyundo)
                 r  == opUndo([d1 EXCEPT !.historyundo = Front(@)], op)
             IN  IF r.exc # "none"
                 THEN Raise(DocSuspendExit(r.d, r.exc), r.exc)
                 ELSE LET d2 == DocSuspendExit(r.d, "none")
                      IN  Ok([d2 EXCEPT !.historyredo = Append(@, op)])

\* undoOperation reading the last entry without removing it
\* (historyundo[-1])
undoOperation_peek(d) ==
    IF Len(d.historyundo) = 0
    THEN Raise(d, "IndexError")
    ELSE LET op == Last(d.historyundo)
             d1 == DocSuspendEnter(d)
             r  == opUndo(d1, op)
         IN  IF r.exc # "none"
             THEN Raise(DocSuspendExit(r.d, r.exc), r.exc)
             ELSE LET d2 == DocSuspendExit(
                                [r.d EXCEPT !.changeset = @ + 1], "none")
                  IN  Ok([d2 EXCEPT !.historyredo = Append(@, op)])

\* Document.undoOperation
undoOperation(d) ==
    IF Len(d.historyundo) = 0
    THEN Raise(d, "IndexError")
    ELSE LET op == Last(d.historyundo)
             d0 == [d EXCEPT !.historyundo = Front(@)]
             d1 == DocSuspendEnter(d0)
             r  == opUndo(d1, op)
         IN  IF r.exc # "none"
             THEN Raise(DocSuspendExit(r.d, r.exc), r.exc)
             ELSE LET d2 == DocSuspendExit(
                                [r.d EXCEPT !.changeset = @ + 1], "none")
                  IN  Ok([d2 EXCEPT !.historyredo = Append(@, op)])

\* redoOperation written as the mirror image of undoOperation: the rest of
\* the redo stack survives
redoOperation_mirror(d) ==
    IF Len(d.historyredo) = 0
    THEN Raise(d, "IndexError")
    ELSE LET op == Last(d.historyredo)
             d0 == [d EXCEPT !.historyredo = Front(@)]
             d1 == DocSuspendEnter(d0)
             r  == opDo(d1, op)
         IN  IF r.exc # "none"
             THEN Raise(DocSuspendExit(r.d, r.exc), r.exc)
             ELSE LET d2 == DocSuspendExit(
                                [r.d EXCEPT !.changeset = @ + 1], "none")
                  IN  Ok([d2 EXCEPT !.historyundo =
                                      Slice(@, HistoryKeep) \o <<op>>])

\* Document.redoOperation
redoOperation(d) ==
    IF Len(d.historyredo) = 0
    THEN Raise(d, "IndexError")
    ELSE LET op == Last(d.historyredo)
         IN  applyOperation([d EXCEPT !.historyredo = Front(@)], op)

(* ---------------------------------------------------------------------- *)
(* Plugin import                                                           *)
(* ---------------------------------------------------------------------- *)
\* Document.log: the message is emitted through sigLog
log(d, message) == [d EXCEPT !.res.logged = Append(@, message)]

\* ImportFilePlugin without its try block
ImportFilePlugin_noHandler(d, op) == applyOperation(d, op)

\* ImportFilePlugin(comm, plugin, filename, **args); op is the
\* OperationDataImportPlugin object made from the arguments. The trace that
\* is logged is represented by the name of the exception it ends with
ImportFilePlugin(d, op) ==
    LET r == applyOperation(d, op)
    IN  IF r.exc # "none"
        THEN Ok(log(log(r.d, "Error in plugin"), r.exc))
        ELSE Ok(r.d)

(* ---------------------------------------------------------------------- *)
(* Whole-document methods                                                  *)
(* ---------------------------------------------------------------------- *)

\* wipe resetting the counter the way makeDefaultDoc does
wipe_resetCounter(d) ==
    [setModified([d EXCEPT !.data = EmptyData, !.basewidget = EmptyRoot],
                 FALSE) EXCEPT !.changeset = 0, !.filename = ""]

\* Document.wipe
wipe(d) ==
    [setModified([d EXCEPT !.data = EmptyData, !.basewidget = EmptyRoot],
                 FALSE) EXCEPT !.filename = ""]

\* Document.makeDefaultDoc: a page holding a graph, then the counters reset
makeDefaultDoc(d) ==
    LET graph == NewWidget("graph", 1, <<>>)
        d1 == [d EXCEPT !.basewidget = makeWidget(@, "page", <<graph>>)]
        d2 == setModified(setModified(d1, TRUE), FALSE)
    IN  [d2 EXCEPT !.changeset = 0]


\* Document.getLinkedFiles; nofilter stands for filenames=None
getLinkedFiles(d, nofilter, filenames) ==
    {d.data[n].linked : n \in {m \in DOMAIN d.data :
        /\ d.data[m].linked # "none"
        /\ (nofilter \/ d.data[m].linked \in filenames)}}

\* the position of a dataset name in sorted order
NameRank(n) == CHOOSE i \in 1 .. Len(SortedNames) : SortedNames[i] = n

\* the names of the datasets whose linked attribute is lf, in sorted order
LinkedNames(d, lf) ==
    SelectSeq(SortedNames,
              LAMBDA n : n \in DOMAIN d.data /\ d.data[n].linked = lf)

\* LinkedFile.reloadLinks(document): every dataset read from the file is
\* stored again under its name
RECURSIVE reloadNames(_, _, _)
reloadNames(d, lf, names) ==
    IF names = <<>> THEN d
    ELSE LET n == Head(names)
             d1 == IF n \in DOMAIN d.data /\ d.data[n].linked = lf
                   THEN setData(d, n, d.data[n])
                   ELSE d
         IN  reloadNames(d1, lf, Tail(names))

\* the entry a reloadLinks call leaves in res.reloads
Reloading(d, lf) ==
    [d EXCEPT !.res.reloads = Append(@, [lf |-> lf, emits |-> Len(d.emits)])]

\* a reloadLinks that raises when the file cannot be read
reloadLinks_raises(d, lf, failing) ==
    LET names == LinkedNames(d, lf)
        d1 == Reloading(d, lf)
    IN  IF lf \in failing
        THEN [d |-> d1, exc |-> "IOError", read |-> <<>>,
              errors |-> [n \in {} |-> 0]]
        ELSE [d |-> reloadNames(d1, lf, SortedNames), exc |-> "none",
              read |-> names,
              errors |-> [n \in {names[i] : i \in DOMAIN names} |-> 0]]

\* LinkedFile.reloadLinks(document) returns (names read, name -> number of
\* errors); a file that cannot be read yields no names and an error for each
\* dataset linked to it, and leaves the store alone
reloadLinks(d, lf, failing) ==
    LET names == LinkedNames(d, lf)
        d1 == Reloading(d, lf)
    IN  IF lf \in failing
        THEN [d |-> d1, exc |-> "none", read |-> <<>>,
              errors |-> [n \in {names[i] : i \in DOMAIN names} |-> 1]]
        ELSE [d |-> reloadNames(d1, lf, SortedNames), exc |-> "none",
              read |-> names,
              errors |-> [n \in {names[i] : i \in DOMAIN names} |-> 0]]

\* the loop "for lf in links" of reloadLinkedDatasets: read += nread and
\* errors.update(nerrors)
RECURSIVE reloadLoop(_, _, _)
reloadLoop(d, order, failing) ==
    IF order = <<>> THEN Ok(d)
    ELSE LET r == reloadLinks(d, Head(order), failing)
         IN  IF r.exc # "none" THEN Raise(r.d, r.exc)
             ELSE reloadLoop([r.d EXCEPT
                                 !.res.read = @ \o r.read,
                                 !.res.errors = DictUpdate(@, r.errors)],
                             Tail(order), failing)

\* the orders in which a set can be listed
Orders(S) == {s \in [1 .. Cardinality(S) -> S] :
                 \A i, j \in 1 .. Cardinality(S) : i # j => s[i] # s[j]}

\* read.sort()
sort(names) == SortSeq(names, LAMBDA x, y : NameRank(x) < NameRank(y))

\* reloadLinkedDatasets reloading outside any suspension
reloadLinkedDatasets_unsuspended(d, nofilter, filenames, order, failing) ==
    IF getLinkedFiles(d, nofilter, filenames) = {}
    THEN Ok(d)
    ELSE LET r == reloadLoop(d, order, failing)
         IN  IF r.exc # "none"
             THEN Raise(r.d, r.exc)
             ELSE LET d2 == setModified(r.d, TRUE)
                  IN  Ok([d2 EXCEPT !.res.read = sort(@)])

\* Document.reloadLinkedDatasets; order is the order of list(links), failing
\* the LinkedFiles that cannot be read
reloadLinkedDatasets(d, nofilter, filenames, order, failing) ==
    IF getLinkedFiles(d, nofilter, filenames) = {}
    THEN Ok(d)
    ELSE LET d1 == DocSuspendEnter(d)
             r  == reloadLoop(d1, order, failing)
         IN  IF r.exc # "none"
             THEN Raise(DocSuspendExit(r.d, r.exc), r.exc)
             ELSE LET d2 == DocSuspendExit(setModified(r.d, TRUE), "none")
                  IN  Ok([d2 EXCEPT !.res.read = sort(@)])

(* ---------------------------------------------------------------------- *)
(* Serialization                                                           *)
(* ---------------------------------------------------------------------- *)
SortedTags == <<"t1", "t2">>

\* one statement of the script: names is the dataset list of a TagDatasets
\* statement, val the values of a data block, tree the widgets of the tree
\* script
Stmt(kind, arg) ==
    [kind |-> kind, arg |-> arg, names |-> <<>>, val |-> 0, tree |-> EmptyRoot]

\* sorted(self.data.items()), as the names
sortedItems(store) == SelectSeq(SortedNames, LAMBDA n : n \in DOMAIN store)

\* Document._writeFileHeader
writeFileHeader == <<Stmt("header", "")>>

\* the loop over dataset.saveLinksToSavedDoc: a linked file is declared once,
\* by the first dataset linked to it, with the names of the datasets that the
\* import creates
RECURSIVE saveLinks(_, _, _)
saveLinks(names, store, savedlinks) ==
    IF names = <<>>
    THEN <<>>
    ELSE LET lf == store[Head(names)].linked
             new == lf # "none" /\ lf \notin savedlinks
         IN  (IF new
              THEN <<[Stmt("link", lf) EXCEPT !.names =
                        SelectSeq(sortedItems(store),
                                  LAMBDA n : store[n].linked = lf)]>>
              ELSE <<>>)
             \o saveLinks(Tail(names), store,
                          IF new THEN savedlinks \cup {lf} ELSE savedlinks)

\* the loop over dataset.saveToFile: a dataset that is not linked writes its
\* values, as a statement in text mode and into the Data group in hdf5 mode
RECURSIVE saveData(_, _, _)
saveData(names, store, mode) ==
    IF names = <<>>
    THEN <<>>
    ELSE (IF store[Head(names)].linked = "none" /\ mode = "text"
          THEN <<[Stmt("data", Head(names)) EXCEPT
                    !.val = store[Head(names)].val]>>
          ELSE <<>>)
         \o saveData(Tail(names), store, mode)

\* bytag[t] of saveDatasetTags and saveToHDF5File
bytag(store, t) == SelectSeq(sortedItems(store), LAMBDA n : t \in store[n].tags)

\* datasetTags returning every tag a dataset ever carried
datasetTags_everyTag(d) == [d EXCEPT !.res.tags = SortedTags]

\* Document.datasetTags: sorted(tags); res.tags is the list returned
datasetTags(d) ==
    [d EXCEPT !.res.tags =
        SelectSeq(SortedTags,
                  LAMBDA t : t \in UNION {d.data[n].tags : n \in DOMAIN d.data})]

\* Document.saveDatasetTags
RECURSIVE saveDatasetTags(_, _)
saveDatasetTags(store, tags) ==
    IF tags = <<>>
    THEN <<>>
    ELSE (IF bytag(store, Head(tags)) # <<>>
          THEN <<[Stmt("tag", Head(tags)) EXCEPT
                    !.names = bytag(store, Head(tags))]>>
          ELSE <<>>)
         \o saveDatasetTags(store, Tail(tags))

\* basewidget.getSaveText()
getSaveText(w) == <<[Stmt("tree", "") EXCEPT !.tree = w]>>

\* the beginning of both scripts: header, import path when the file object
\* has a name, custom definitions, links
ScriptHead(d, named) ==
    writeFileHeader
    \o (IF named THEN <<Stmt("importpath", "")>> ELSE <<>>)
    \o <<Stmt("customs", "")>>
    \o saveLinks(sortedItems(d.data), d.data, {})

\* saveToFile writing the tags before the datasets
saveToFile_tagsFirst(d, named) ==
    [setModified(d, FALSE) EXCEPT !.out.text =
        writeFileHeader
        \o (IF named THEN <<Stmt("importpath", "")>> ELSE <<>>)
        \o <<Stmt("customs", "")>>
        \o saveDatasetTags(d.data, SortedTags)
        \o saveLinks(sortedItems(d.data), d.data, {})
        \o saveData(sortedItems(d.data), d.data, "text")
        \o getSaveText(d.basewidget)]

\* Document.saveToFile; named: the file object has a name
saveToFile(d, named) ==
    [setModified(d, FALSE) EXCEPT !.out.text =
        ScriptHead(d, named)
        \o saveData(sortedItems(d.data), d.data, "text")
        \o saveDatasetTags(d.data, SortedTags)
        \o getSaveText(d.basewidget)]

\* saveToHDF5File writing the tag assignments into the script, as saveToFile
\* does
saveToHDF5File_tagsInScript(d, named) ==
    LET plain == {n \in DOMAIN d.data : d.data[n].linked = "none"}
    IN  [setModified(d, FALSE) EXCEPT
           !.out = [text |-> ScriptHead(d, named)
                             \o saveData(sortedItems(d.data), d.data, "hdf5")
                             \o saveDatasetTags(d.data, SortedTags)
                             \o getSaveText(d.basewidget),
                    tags |-> NoOut.tags,
                    payload |-> [n \in plain |-> d.data[n].val]]]

\* saveToHDF5File leaving out the Tags group
saveToHDF5File_noTagsGroup(d, named) ==
    LET plain == {n \in DOMAIN d.data : d.data[n].linked = "none"}
    IN  [setModified(d, FALSE) EXCEPT
           !.out = [text |-> ScriptHead(d, named)
                             \o saveData(sortedItems(d.data), d.data, "hdf5")
                             \o getSaveText(d.basewidget),
                    tags |-> NoOut.tags,
                    payload |-> [n \in plain |-> d.data[n].val]]]

\* Document.saveToHDF5File; named: the file object has a filename
saveToHDF5File(d, named) ==
    LET plain == {n \in DOMAIN d.data : d.data[n].linked = "none"}
        used  == {t \in Tags : bytag(d.data, t) # <<>>}
    IN  [setModified(d, FALSE) EXCEPT
           !.out = [text |-> ScriptHead(d, named)
                             \o saveData(sortedItems(d.data), d.data, "hdf5")
                             \o getSaveText(d.basewidget),
                    tags |-> [t \in used |-> bytag(d.data, t)],
                    payload |-> [n \in plain |-> d.data[n].val]]]

\* save setting filename before it looks at the mode
save_filenameFirst(d, fname, mode, h5py) ==
    LET d1 == [d EXCEPT !.filename = fname]
    IN  IF mode = "vsz"
        THEN Ok(saveToFile(d1, TRUE))
        ELSE IF mode = "hdf5"
        THEN IF h5py
             THEN Ok(saveToHDF5File(d1, TRUE))
             ELSE Raise(d1, "RuntimeError")
        ELSE Raise(d1, "RuntimeError")

\* Document.save: the file objects that codecs.open and h5py.File return
\* carry the file name; h5py: the h5py module could be imported
save(d, fname, mode, h5py) ==
    IF mode = "vsz"
    THEN Ok([saveToFile(d, TRUE) EXCEPT !.filename = fname])
    ELSE IF mode = "hdf5"
    THEN IF h5py
         THEN Ok([saveToHDF5File(d, TRUE) EXCEPT !.filename = fname])
         ELSE Raise(d, "RuntimeError")
    ELSE Raise(d, "RuntimeError")

\* the dataset an import statement reads from a linked file
Imported(lf) == [val |-> 2, linked |-> lf, tags |-> {}]

\* TagDatasets(tag, names): the datasets that exist get the tag
RECURSIVE tagDatasets(_, _, _)
tagDatasets(store, tag, names) ==
    IF names = <<>>
    THEN store
    ELSE tagDatasets(IF Head(names) \in DOMAIN store
                     THEN [store EXCEPT ![Head(names)].tags = @ \cup {tag}]
                     ELSE store,
                     tag, Tail(names))

\* the datasets an import statement creates
RECURSIVE importNames(_, _, _)
importNames(store, lf, names) ==
    IF names = <<>>
    THEN store
    ELSE importNames(DictSet(store, Head(names), Imported(lf)), lf,
                     Tail(names))

\* the loader executing one statement of a script
execute(d, st) ==
    CASE st.kind = "link" ->
            [d EXCEPT !.data = importNames(@, st.arg, st.names)]
      [] st.kind = "data" ->
            [d EXCEPT !.data = DictSet(@, st.arg, [val |-> st.val,
                                                   linked |-> "none",
                                                   tags |-> {}])]
      [] st.kind = "tag" ->
            [d EXCEPT !.data = tagDatasets(@, st.arg, st.names)]
      [] st.kind = "tree" -> [d EXCEPT !.basewidget = st.tree]
      [] OTHER -> d

RECURSIVE executeAll(_, _)
executeAll(d, text) ==
    IF text = <<>> THEN d ELSE executeAll(execute(d, Head(text)), Tail(text))

\* the Tags group read back
RECURSIVE tagsGroup(_, _, _)
tagsGroup(store, index, tags) ==
    IF tags = <<>>
    THEN store
    ELSE tagsGroup(IF Head(tags) \in DOMAIN index
                   THEN tagDatasets(store, Head(tags), index[Head(tags)])
                   ELSE store,
                   index, Tail(tags))

\* loader.loadDocument: the document is wiped, the script is executed, in
\* hdf5 mode the Data group and the Tags group are read, and the document is
\* left unmodified with an empty history
loadDocument(d, file, mode) ==
    LET d1 == executeAll(wipe(d), file.text)
        d2 == IF mode = "hdf5"
              THEN [d1 EXCEPT !.data = tagsGroup(
                       [n \in DOMAIN @ \cup DOMAIN file.payload |->
                           IF n \in DOMAIN file.payload
                           THEN [val |-> file.payload[n], linked |-> "none",
                                 tags |-> {}]
                           ELSE @[n]],
                       file.tags, SortedTags)]
              ELSE d1
    IN  clearHistory(setModified(d2, FALSE))

\* Document.load
load(d, fname, file, mode) ==
    [loadDocument(d, file, mode) EXCEPT !.filename = fname]

(* ---------------------------------------------------------------------- *)
(* Path resolution                                                         *)
(* ---------------------------------------------------------------------- *)
\* the parts of where.split('/'): '..', '.', the empty string, the name of a
\* widget (1, 2, ...) or the name of a setting or settings group
Up == -2
Dot == -1
Empty == -3
ASetting == 100
AGroup == 101
Segments == {Up, Dot, Empty, 1, ASetting, AGroup}

\* where, as its parts: one to MaxParts of them
Wheres == UNION {[1 .. n -> Segments] : n \in 1 .. MaxParts}

\* where[:1] == '/': the string has a '/' and nothing before the first one
Absolute(parts) == Len(parts) >= 2 /\ parts[1] = Empty

\* an object of the tree: the widget at wpath (the names from the root down)
\* or, inside its settings, the settings group or the setting at spath
Obj(kind, wpath, spath) == [kind |-> kind, wpath |-> wpath, spath |-> spath]
NoObj == Obj("none", <<>>, <<>>)
Root == Obj("widget", <<>>, <<>>)

\* the widget record at wpath below w
RECURSIVE WidgetAt(_, _)
WidgetAt(w, wpath) ==
    IF wpath = <<>>
    THEN w
    ELSE WidgetAt(CHOOSE c \in {w.children[i] : i \in 1 .. Len(w.children)} :
                      c.name = Head(wpath),
                  Tail(wpath))

\* the paths of the widgets of the tree below w
RECURSIVE WidgetPaths(_)
WidgetPaths(w) ==
    {<<>>} \cup UNION {{<<w.children[i].name>> \o q :
                           q \in WidgetPaths(w.children[i])} :
                       i \in 1 .. Len(w.children)}

\* the settings of every widget: a setting, and a group holding a setting
SettingKind(spath) ==
    CASE spath = <<>> -> "settings"
      [] spath = <<ASetting>> -> "setting"
      [] spath = <<AGroup>> -> "settings"
      [] spath = <<AGroup, ASetting>> -> "setting"
      [] OTHER -> "none"

\* obj.parent, NoObj for None
parentOf(obj) ==
    IF obj.kind = "widget"
    THEN IF obj.wpath = <<>>
         THEN NoObj
         ELSE Obj("widget", Front(obj.wpath), <<>>)
    ELSE IF obj.spath = <<>>
    THEN Obj("widget", obj.wpath, <<>>)
    ELSE Obj("settings", obj.wpath, Front(obj.spath))

\* widget.getChild(p), NoObj for None
getChild(d, obj, p) ==
    IF p \in ChildNames(WidgetAt(d.basewidget, obj.wpath))
    THEN Obj("widget", Append(obj.wpath, p), <<>>)
    ELSE NoObj

Found(obj) == [obj |-> obj, exc |-> "none"]
NotFound == [obj |-> NoObj, exc |-> "ValueError"]

\* one turn of the loop of resolveItem
resolveItemPart(d, obj, p) ==
    IF p = Up
    THEN IF parentOf(obj) = NoObj THEN NotFound ELSE Found(parentOf(obj))
    ELSE IF p = Dot \/ p = Empty
    THEN Found(obj)
    ELSE IF obj.kind = "widget"
    THEN IF getChild(d, obj, p) # NoObj
         THEN Found(getChild(d, obj, p))
         ELSE IF SettingKind(<<p>>) # "none"
         THEN Found(Obj(SettingKind(<<p>>), obj.wpath, <<p>>))
         ELSE NotFound
    ELSE IF obj.kind = "settings"
    THEN IF SettingKind(Append(obj.spath, p)) # "none"
         THEN Found(Obj(SettingKind(Append(obj.spath, p)), obj.wpath,
                        Append(obj.spath, p)))
         ELSE NotFound
    ELSE NotFound

RECURSIVE resolveItemParts(_, _, _)
resolveItemParts(d, obj, parts) ==
    IF parts = <<>>
    THEN Found(obj)
    ELSE LET r == resolveItemPart(d, obj, Head(parts))
         IN  IF r.exc # "none" THEN r
             ELSE resolveItemParts(d, r.obj, Tail(parts))

\* resolveItem taking the root widget as its own parent
resolveItem_rootIsItsParent(d, fromwidget, where) ==
    LET obj == IF Absolute(where) THEN Root ELSE Obj("widget", fromwidget, <<>>)
    IN  IF obj = Root /\ Head(where) = Up
        THEN resolveItemParts(d, obj, Tail(where))
        ELSE resolveItemParts(d, obj, where)

\* Document.resolveItem; fromwidget is the path of a widget of the tree
resolveItem(d, fromwidget, where) ==
    resolveItemParts(d, IF Absolute(where) THEN Root
                        ELSE Obj("widget", fromwidget, <<>>),
                     where)

\* one turn of the loop of resolve
resolvePart(d, obj, p) ==
    IF p = Up
    THEN IF parentOf(obj) = NoObj THEN NotFound ELSE Found(parentOf(obj))
    ELSE IF p = Dot \/ p = Empty
    THEN Found(obj)
    ELSE IF getChild(d, obj, p) = NoObj
    THEN NotFound
    ELSE Found(getChild(d, obj, p))

RECURSIVE resolveParts(_, _, _)
resolveParts(d, obj, parts) ==
    IF parts = <<>>
    THEN Found(obj)
    ELSE LET r == resolvePart(d, obj, Head(parts))
         IN  IF r.exc # "none" THEN r
             ELSE resolveParts(d, r.obj, Tail(parts))

\* Document.resolve
resolve(d, fromwidget, where) ==
    resolveParts(d, IF Absolute(where) THEN Root
                    ELSE Obj("widget", fromwidget, <<>>),
                 where)

\* the parts after the leading '/' of a full path
FullSegments == {Empty, 1, 2, ASetting, AGroup}

\* path.split('/') of the absolute paths of one to MaxFullParts parts
FullPaths ==
    {<<Empty>> \o p :
        p \in UNION {[1 .. n -> FullSegments] : n \in 1 .. MaxFullParts}}

\* [i for i in path.split('/') if i != '']
NonEmptyParts(path) == SelectSeq(path, LAMBDA p : p # Empty)

Asserted == [obj |-> NoObj, exc |-> "AssertionError"]
IndexFailed == [obj |-> NoObj, exc |-> "IndexError"]

\* the loop "for p in ..." of resolveFullWidgetPath
RECURSIVE fullWidgetParts(_, _, _)
fullWidgetParts(d, obj, parts) ==
    IF parts = <<>>
    THEN Found(obj)
    ELSE IF getChild(d, obj, Head(parts)) = NoObj
    THEN Asserted
    ELSE fullWidgetParts(d, getChild(d, obj, Head(parts)), Tail(parts))

\* Document.resolveFullWidgetPath
resolveFullWidgetPath(d, path) ==
    fullWidgetParts(d, Root, NonEmptyParts(path))

\* the first loop of resolveFullSettingPath: widgets are entered while the
\* first part left names a child; the result is the widget reached and the
\* parts left
RECURSIVE settingWidgetParts(_, _, _)
settingWidgetParts(d, obj, parts) ==
    IF parts = <<>> \/ getChild(d, obj, Head(parts)) = NoObj
    THEN [obj |-> obj, parts |-> parts]
    ELSE settingWidgetParts(d, getChild(d, obj, Head(parts)), Tail(parts))

\* the second loop of resolveFullSettingPath: "while isinstance(s, Settings)
\* and parts[0] in s.setdict"; parts[0] of an empty list raises IndexError
RECURSIVE settingParts(_, _)
settingParts(obj, parts) ==
    IF obj.kind # "settings"
    THEN [obj |-> obj, exc |-> "none"]
    ELSE IF parts = <<>>
    THEN IndexFailed
    ELSE IF SettingKind(Append(obj.spath, Head(parts))) = "none"
    THEN [obj |-> obj, exc |-> "none"]
    ELSE settingParts(Obj(SettingKind(Append(obj.spath, Head(parts))),
                          obj.wpath, Append(obj.spath, Head(parts))),
                      Tail(parts))

\* Document.resolveFullSettingPath
resolveFullSettingPath(d, path) ==
    LET w == settingWidgetParts(d, Root, NonEmptyParts(path))
        r == settingParts(Obj("settings", w.obj.wpath, <<>>), w.parts)
    IN  IF r.exc # "none" THEN r
        ELSE IF r.obj.kind # "setting" THEN Asserted
        ELSE Found(r.obj)

(* ---------------------------------------------------------------------- *)
(* Walking the tree                                                        *)
(* ---------------------------------------------------------------------- *)
\* A path string is kept as its parts, path.split('/'): '' is <<Empty>>, '/'
\* is <<Empty, Empty>> and path + '/' + name is Append(path, name).
EmptyPath == <<Empty>>
RootPath == <<Empty, Empty>>

\* widget.path: '/' for the root widget, else '/' and the names joined by '/'
widgetPath(wpath) == IF wpath = <<>> THEN RootPath ELSE <<Empty>> \o wpath

NodeTypes == {"widget", "setting", "settings"}

\* sorted(root.setdict.items()): the names of the entries of the settings
\* group at spath, in order
sortedSettings(spath) ==
    SelectSeq(<<ASetting, AGroup>>,
              LAMBDA n : SettingKind(Append(spath, n)) # "none")

\* tocall(_path, root)
Visit(path, node) == [path |-> path, node |-> node]

RECURSIVE walkNodes(_, _, _, _)

\* the loop "for w in root.children" of walkNodes
RECURSIVE walkChildren(_, _, _, _, _)
walkChildren(d, root, children, nodetypes, path) ==
    IF children = <<>> THEN <<>>
    ELSE walkNodes(d, Obj("widget", Append(root.wpath, Head(children).name),
                          <<>>),
                   nodetypes, Append(path, Head(children).name))
         \o walkChildren(d, root, Tail(children), nodetypes, path)

\* the loop "for name, s in sorted(root.setdict.items())" of walkNodes
RECURSIVE walkSettings(_, _, _, _, _)
walkSettings(d, root, names, nodetypes, path) ==
    IF names = <<>> THEN <<>>
    ELSE walkNodes(d, Obj(SettingKind(Append(root.spath, Head(names))),
                          root.wpath, Append(root.spath, Head(names))),
                   nodetypes, Append(path, Head(names)))
         \o walkSettings(d, root, Tail(names), nodetypes, path)

\* walkNodes doing the settings of a widget before its children
walkNodes_settingsFirst(d, root, nodetypes, path) ==
    LET called == IF root.kind \in nodetypes
                  THEN <<Visit(path, root)>> ELSE <<>>
    IN  IF root.kind = "widget"
        THEN LET p == IF path = RootPath THEN EmptyPath ELSE path
             IN  called
                 \o walkNodes(d, Obj("settings", root.wpath, <<>>),
                              nodetypes, p)
                 \o walkChildren(d, root,
                                 WidgetAt(d.basewidget, root.wpath).children,
                                 nodetypes, p)
        ELSE IF root.kind = "settings"
        THEN called \o walkSettings(d, root, sortedSettings(root.spath),
                                    nodetypes, path)
        ELSE called

\* Document.walkNodes(tocall, root, nodetypes, _path): the calls made to
\* tocall, in order
walkNodes(d, root, nodetypes, path) ==
    LET called == IF root.kind \in nodetypes
                  THEN <<Visit(path, root)>> ELSE <<>>
    IN  IF root.kind = "widget"
        THEN LET p == IF path = RootPath THEN EmptyPath ELSE path
             IN  called
                 \o walkChildren(d, root,
                                 WidgetAt(d.basewidget, root.wpath).children,
                                 nodetypes, p)
                 \o walkNodes(d, Obj("settings", root.wpath, <<>>),
                              nodetypes, p)
        ELSE IF root.kind = "settings"
        THEN called \o walkSettings(d, root, sortedSettings(root.spath),
                                    nodetypes, path)
        ELSE called

(* ---------------------------------------------------------------------- *)
(* Bookkeeping: the current run of applyOperation calls followed by        *)
(* undoOperation calls                                                     *)
(* ---------------------------------------------------------------------- *)
Content(d) == [data |-> d.data, basewidget |-> d.basewidget]

NoRun == [phase |-> "none", snaps |-> <<>>, undos |-> 0, undone |-> 0,
          fromEmpty |-> FALSE]

\* snaps[i] is the content before the i-th apply of the run; undos counts the
\* undoOperation calls after the applies, undone those that succeeded; the
\* run ends with the first undoOperation that finds the history empty
\* (phase "empty") or with any other call
RunNext(call, exc, pre) ==
    IF call = "applyOperation" /\ exc = "none" /\ Len(pre.historybatch) = 0
    THEN IF run.phase = "apply"
         THEN [run EXCEPT !.snaps = Append(@, Content(pre))]
         ELSE [phase |-> "apply", snaps |-> <<Content(pre)>>, undos |-> 0,
               undone |-> 0, fromEmpty |-> Len(pre.historyundo) = 0]
    ELSE IF /\ call = "undoOperation" /\ exc \in {"none", "IndexError"}
            /\ run.phase \in {"apply", "undo"}
    THEN [run EXCEPT !.phase = IF exc = "none" THEN "undo" ELSE "empty",
                     !.undos = @ + 1,
                     !.undone = @ + (IF exc = "none" THEN 1 ELSE 0)]
    ELSE NoRun

(* ---------------------------------------------------------------------- *)
(* Bookkeeping: what a call found, and the outermost suspension            *)
(* ---------------------------------------------------------------------- *)
\* what the caller could read off the document before a call
Pre(d) == [changeset |-> d.changeset, depth |-> Len(d.suspendupdates),
           undo |-> Len(d.historyundo), redo |-> Len(d.historyredo),
           batch |-> Len(d.historybatch)]

NoScope == [mutated |-> FALSE, nested |-> FALSE]

NoArgs == [old |-> "", new |-> "", store |-> EmptyData, back |-> FALSE,
           orig |-> EmptyData, named |-> FALSE, mode |-> "",
           tree |-> EmptyRoot, from |-> <<>>, where |-> <<>>, ret |-> NoObj,
           nofilter |-> FALSE, files |-> {}, failing |-> {}, fname |-> "",
           h5py |-> FALSE, nodetypes |-> {}]

\* a call changed what listeners are told about
Changed(pre, post) ==
    \/ pre.changeset # post.changeset
    \/ pre.modified # post.modified
    \/ pre.data # post.data
    \/ pre.basewidget # post.basewidget

\* scope.mutated: a call other than enableUpdates changed the document since
\* the outermost suspendUpdates; scope.nested: a second suspendUpdates was
\* issued inside it
ScopeNext(call, pre, post) ==
    IF Len(pre.suspendupdates) = 0
    THEN NoScope
    ELSE IF call = "enableUpdates"
    THEN scope
    ELSE [mutated |-> scope.mutated \/ Changed(pre, post),
          nested |-> scope.nested \/ call = "suspendUpdates"]

\* an Operation object nobody has passed to the document yet
NoStatus == [status |-> "new", applies |-> 0]

\* opstatus[o].status: "applied" when the last successful call that ran o was
\* an applyOperation or a redoOperation, "undone" when it was an
\* undoOperation; opstatus[o].applies: how many times the caller passed o to
\* applyOperation, 2 standing for twice or more
StatusNext(call, op, exc, pre) ==
    IF call = "applyOperation"
    THEN [opstatus EXCEPT ![op].applies = Min(@ + 1, 2),
                          ![op].status = IF exc = "none" THEN "applied" ELSE @]
    ELSE IF call = "redoOperation" /\ exc = "none"
    THEN [opstatus EXCEPT ![Last(pre.historyredo)].status = "applied"]
    ELSE IF call = "undoOperation" /\ exc = "none"
    THEN [opstatus EXCEPT ![Last(pre.historyundo)].status = "undone"]
    ELSE opstatus

(* ---------------------------------------------------------------------- *)
(* State machine                                                           *)
(* ---------------------------------------------------------------------- *)
\* Document.__init__: clearHistory() then wipe(); wipe's setModified(False)
\* makes changeset 1
Init ==
    /\ changeset = 1
    /\ modified = FALSE
    /\ data = EmptyData
    /\ basewidget = EmptyRoot
    /\ filename = ""
    /\ suspendupdates = <<>>
    /\ historybatch = <<>>
    /\ historyundo = <<>>
    /\ historyredo = <<>>
    /\ ops = [o \in AllOps |-> NoState]
    /\ emitted = <<>>
    /\ last = [call |-> "init", op |-> -1, exc |-> "none",
               pre |-> [changeset |-> 0, depth |-> 0, undo |-> 0, redo |-> 0,
                        batch |-> 0],
               args |-> NoArgs, res |-> NoRes]
    /\ run = NoRun
    /\ scope = NoScope
    /\ written = NoOut
    /\ opstatus = [o \in AllOps |-> NoStatus]
    /\ calls = 0

\* the call named call, made with the arguments args, returned (or raised)
\* with result r
CommitArgs(call, op, args, r) ==
    /\ changeset' = r.d.changeset
    /\ modified' = r.d.modified
    /\ data' = r.d.data
    /\ basewidget' = r.d.basewidget
    /\ filename' = r.d.filename
    /\ suspendupdates' = r.d.suspendupdates
    /\ historybatch' = r.d.historybatch
    /\ historyundo' = r.d.historyundo
    /\ historyredo' = r.d.historyredo
    /\ ops' = r.d.ops
    /\ emitted' = r.d.emits
    /\ last' = [call |-> call, op |-> op, exc |-> r.exc, pre |-> Pre(Doc),
                args |-> args, res |-> r.d.res]
    /\ scope' = ScopeNext(call, Doc, r.d)
    /\ written' = r.d.out
    /\ opstatus' = StatusNext(call, op, r.exc, Doc)
    /\ run' = RunNext(call, r.exc, Doc)

\* a call whose arguments no property reads
Commit(call, op, r) == CommitArgs(call, op, NoArgs, r)

SuspendUpdates ==
    /\ Len(suspendupdates) < MaxDepth
    /\ Commit("suspendUpdates", -1, Ok(suspendUpdates(Doc)))

\* list.pop() of an empty suspendupdates raises IndexError
EnableUpdates ==
    Commit("enableUpdates", -1,
           IF Len(suspendupdates) = 0 THEN Raise(Doc, "IndexError")
           ELSE Ok(enableUpdates(Doc)))

SetModified(ismodified) ==
    Commit("setModified", -1, Ok(setModified(Doc, ismodified)))

SetData(name, dataset) ==
    Commit("setData", -1, Ok(setData(Doc, name, dataset)))

DeleteData(name) ==
    Commit("deleteData", -1, Ok(deleteData(Doc, name)))

\* the arguments are kept together with the store the call found; back: the
\* call directly follows a successful renameDataset(newname, oldname), which
\* found the store orig
RenameDataset(oldname, newname) ==
    CommitArgs("renameDataset", -1,
               [old |-> oldname, new |-> newname, store |-> data,
                back |-> /\ last.call = "renameDataset"
                         /\ last.exc = "none"
                         /\ last.args.old = newname
                         /\ last.args.new = oldname,
                orig |-> last.args.store, named |-> FALSE, mode |-> "",
                tree |-> EmptyRoot, from |-> <<>>, where |-> <<>>,
                ret |-> NoObj],
               renameDataset(Doc, oldname, newname))

ClearHistory ==
    Commit("clearHistory", -1, Ok(clearHistory(Doc)))

Wipe ==
    Commit("wipe", -1, Ok(wipe(Doc)))

MakeDefaultDoc ==
    Commit("makeDefaultDoc", -1, Ok(makeDefaultDoc(Doc)))

DatasetTags == Commit("datasetTags", -1, Ok(datasetTags(Doc)))

SaveToFile(named) ==
    CommitArgs("saveToFile", -1, [NoArgs EXCEPT !.named = named],
               Ok(saveToFile(Doc, named)))

SaveToHDF5File(named) ==
    CommitArgs("saveToHDF5File", -1, [NoArgs EXCEPT !.named = named],
               Ok(saveToHDF5File(Doc, named)))

\* the arguments are kept together with the object returned
ResolveItem(fromwidget, where) ==
    LET r == resolveItem(Doc, fromwidget, where)
    IN  CommitArgs("resolveItem", -1,
                   [NoArgs EXCEPT !.from = fromwidget, !.where = where,
                                  !.ret = r.obj],
                   [d |-> Doc, exc |-> r.exc])

Resolve(fromwidget, where) ==
    LET r == resolve(Doc, fromwidget, where)
    IN  CommitArgs("resolve", -1,
                   [NoArgs EXCEPT !.from = fromwidget, !.where = where,
                                  !.ret = r.obj],
                   [d |-> Doc, exc |-> r.exc])

ResolveFullWidgetPath(path) ==
    LET r == resolveFullWidgetPath(Doc, path)
    IN  CommitArgs("resolveFullWidgetPath", -1,
                   [NoArgs EXCEPT !.where = path, !.ret = r.obj],
                   [d |-> Doc, exc |-> r.exc])

ResolveFullSettingPath(path) ==
    LET r == resolveFullSettingPath(Doc, path)
    IN  CommitArgs("resolveFullSettingPath", -1,
                   [NoArgs EXCEPT !.where = path, !.ret = r.obj],
                   [d |-> Doc, exc |-> r.exc])

\* walkNodes(tocall, root=the widget at wpath, nodetypes=nodetypes)
WalkNodes(wpath, nodetypes) ==
    CommitArgs("walkNodes", -1,
               [NoArgs EXCEPT !.from = wpath, !.nodetypes = nodetypes],
               Ok([Doc EXCEPT !.res.visits =
                      walkNodes(Doc, Obj("widget", wpath, <<>>), nodetypes,
                                widgetPath(wpath))]))

FileNames == {"doc"}
Modes == {"vsz", "hdf5", "txt"}

Save(fname, mode, h5py) ==
    CommitArgs("save", -1,
               [NoArgs EXCEPT !.mode = mode, !.fname = fname, !.h5py = h5py],
               save(Doc, fname, mode, h5py))

\* the file loaded is the one that the call before, a save, wrote in the
\* same mode; the arguments are kept together with the store and the widget
\* tree that were saved
Load(fname, mode) ==
    /\ last.call = "save"
    /\ last.exc = "none"
    /\ last.args.mode = mode
    /\ CommitArgs("load", -1,
                  [NoArgs EXCEPT !.mode = mode, !.store = data,
                                 !.tree = basewidget],
                  Ok(load(Doc, fname, written, mode)))

ReloadLinkedDatasets(nofilter, filenames, failing) ==
    \E order \in Orders(getLinkedFiles(Doc, nofilter, filenames)) :
        CommitArgs("reloadLinkedDatasets", -1,
                   [NoArgs EXCEPT !.nofilter = nofilter, !.files = filenames,
                                  !.failing = failing, !.store = data],
                   reloadLinkedDatasets(Doc, nofilter, filenames, order,
                                        failing))

ImportPlugin(op) ==
    Commit("ImportFilePlugin", op, ImportFilePlugin(Doc, op))

ApplyOperation(op) ==
    Commit("applyOperation", op, applyOperation(Doc, op))

BatchHistory(batch) ==
    /\ batch => Len(historybatch) < MaxBatch
    /\ Commit("batchHistory", -1, batchHistory(Doc, batch))

UndoOperation ==
    Commit("undoOperation", -1, undoOperation(Doc))

RedoOperation ==
    Commit("redoOperation", -1, redoOperation(Doc))

PoolOps == 0 .. PoolSize

\* one more call of a sequence of at most MaxCalls calls
Budget == calls < MaxCalls /\ calls' = calls + 1

Next ==
    \/ Budget /\ SuspendUpdates
    \/ Budget /\ EnableUpdates
    \/ Budget /\ \E m \in BOOLEAN : SetModified(m)
    \/ Budget /\ \E n \in DsNames, ds \in Datasets : SetData(n, ds)
    \/ Budget /\ \E n \in DsNames : DeleteData(n)
    \/ Budget /\ \E n, m \in DsNames : RenameDataset(n, m)
    \/ Budget /\ ClearHistory
    \/ Budget /\ Wipe
    \/ Budget /\ MakeDefaultDoc
    \/ Budget /\ \E named \in BOOLEAN : SaveToFile(named)
    \/ Budget /\ \E nf \in BOOLEAN, fs, bad \in SUBSET LinkedFiles :
                     ReloadLinkedDatasets(nf, fs, bad)
    \/ Budget /\ \E op \in PoolOps : ApplyOperation(op)
    \/ Budget /\ \E b \in BOOLEAN : BatchHistory(b)
    \/ Budget /\ UndoOperation
    \/ Budget /\ RedoOperation

Spec == Init /\ [][Next]_vars

\* one more call of a sequence of at most MaxStoreCalls calls
StoreBudget == calls < MaxStoreCalls /\ calls' = calls + 1

\* the dataset store and the files written from it and read back, with one
\* more dataset name and one more dataset, inside and outside suspensions
NextStore ==
    \/ StoreBudget /\ SuspendUpdates
    \/ StoreBudget /\ EnableUpdates
    \/ StoreBudget /\ \E n \in AllNames, ds \in AllDatasets : SetData(n, ds)
    \/ StoreBudget /\ \E n \in AllNames : DeleteData(n)
    \/ StoreBudget /\ \E n, m \in AllNames : RenameDataset(n, m)
    \/ StoreBudget /\ \E named \in BOOLEAN : SaveToFile(named)
    \/ StoreBudget /\ \E named \in BOOLEAN : SaveToHDF5File(named)
    \/ StoreBudget /\ MakeDefaultDoc
    \/ StoreBudget /\ \E f \in FileNames, m \in Modes, h5py \in BOOLEAN :
                          Save(f, m, h5py)
    \/ StoreBudget /\ \E f \in FileNames, m \in Modes : Load(f, m)

SpecStore == Init /\ [][NextStore]_vars

\* datasets linked to two files, and a dataset linked to none
ReloadFiles == {"f1", "f2"}
ReloadDatasets == {[val |-> 1, linked |-> "none", tags |-> {}],
                   [val |-> 2, linked |-> "f1", tags |-> {"t1"}],
                   [val |-> 4, linked |-> "f2", tags |-> {}]}

\* one more call of a sequence of at most MaxReloadCalls calls
ReloadBudget == calls < MaxReloadCalls /\ calls' = calls + 1

\* linked files only: datasets linked to several files are stored and the
\* files reloaded, inside and outside suspensions
NextReload ==
    \/ ReloadBudget /\ SuspendUpdates
    \/ ReloadBudget /\ EnableUpdates
    \/ ReloadBudget /\ \E n \in AllNames, ds \in ReloadDatasets :
                           SetData(n, ds)
    \/ ReloadBudget /\ \E nf \in BOOLEAN, fs, bad \in SUBSET ReloadFiles :
                           ReloadLinkedDatasets(nf, fs, bad)

SpecReload == Init /\ [][NextReload]_vars

\* one more call of a sequence of at most MaxTagCalls calls
TagBudget == calls < MaxTagCalls /\ calls' = calls + 1

\* tags only: tagged datasets are stored, deleted and renamed, and the tags
\* are listed and saved
NextTags ==
    \/ TagBudget /\ \E n \in AllNames, ds \in AllDatasets : SetData(n, ds)
    \/ TagBudget /\ \E n \in AllNames : DeleteData(n)
    \/ TagBudget /\ \E n, m \in AllNames : RenameDataset(n, m)
    \/ TagBudget /\ DatasetTags
    \/ TagBudget /\ \E named \in BOOLEAN : SaveToFile(named)

SpecTags == Init /\ [][NextTags]_vars

\* operations whose do or undo can fail: one that raises after it has
\* changed the store, one that adds a page, one that deletes a dataset
FailOps == {0, 2, 3}

\* one more call of a sequence of at most MaxFailCalls calls
FailBudget == calls < MaxFailCalls /\ calls' = calls + 1

\* failures only: operations are applied, undone and redone while the
\* dataset and the pages they rely on come and go
NextFail ==
    \/ FailBudget /\ SuspendUpdates
    \/ FailBudget /\ EnableUpdates
    \/ FailBudget /\ SetData("a", Ds1)
    \/ FailBudget /\ DeleteData("a")
    \/ FailBudget /\ Wipe
    \/ FailBudget /\ \E b \in BOOLEAN : BatchHistory(b)
    \/ FailBudget /\ \E op \in FailOps : ApplyOperation(op)
    \/ FailBudget /\ UndoOperation
    \/ FailBudget /\ RedoOperation

SpecFail == Init /\ [][NextFail]_vars

\* an operation whose do raises and one whose do and undo change nothing
CapOps == {0, 4}

\* one more call while changeset is below MaxCapChangeset
CapBudget == changeset < MaxCapChangeset /\ UNCHANGED calls

\* the size of the history: operations are applied, with and without an open
\* batch, undone and redone, and the history is cleared
NextCap ==
    \/ CapBudget /\ \E op \in CapOps : ApplyOperation(op)
    \/ CapBudget /\ \E b \in BOOLEAN : BatchHistory(b)
    \/ CapBudget /\ UndoOperation
    \/ CapBudget /\ RedoOperation
    \/ CapBudget /\ ClearHistory

SpecCap == Init /\ [][NextCap]_vars

\* an operation whose do raises, one that sets a dataset and one that adds a
\* page
CleanOps == {0, 1, 2}

\* one more call of a sequence of at most MaxCleanCalls calls
CleanBudget == calls < MaxCleanCalls /\ calls' = calls + 1

\* the modified flag: the document is saved and edited, inside and outside a
\* suspension of updates
NextClean ==
    \/ CleanBudget /\ SuspendUpdates
    \/ CleanBudget /\ EnableUpdates
    \/ CleanBudget /\ SetData("a", Ds1)
    \/ CleanBudget /\ DeleteData("a")
    \/ CleanBudget /\ RenameDataset("a", "b")
    \/ CleanBudget /\ DatasetTags
    \/ CleanBudget /\ \E named \in BOOLEAN : SaveToFile(named)
    \/ CleanBudget /\ \E named \in BOOLEAN : SaveToHDF5File(named)
    \/ CleanBudget /\ \E m \in Modes, h5py \in BOOLEAN : Save("doc", m, h5py)
    \/ CleanBudget /\ \E op \in CleanOps : ApplyOperation(op)
    \/ CleanBudget /\ UndoOperation
    \/ CleanBudget /\ RedoOperation

SpecClean == Init /\ [][NextClean]_vars

\* the dataset objects the caller holds; setData assigns both attributes, so
\* the values they had before the call do not matter
RefDatasets ==
    {[val |-> i, linked |-> "none", tags |-> {}, id |-> i, username |-> "",
      document |-> "none"] : i \in 1 .. MaxObjects}

\* one more call of a sequence of at most MaxRefCalls calls
RefBudget == calls < MaxRefCalls /\ calls' = calls + 1

\* the back-references of datasets: objects are stored, also under several
\* names, deleted and renamed
NextRefs ==
    \/ RefBudget /\ \E n \in AllNames, ds \in RefDatasets : SetData(n, ds)
    \/ RefBudget /\ \E n \in AllNames : DeleteData(n)
    \/ RefBudget /\ \E n, m \in AllNames : RenameDataset(n, m)

SpecRefs == Init /\ [][NextRefs]_vars

\* one more call of a sequence of at most MaxImportCalls calls
ImportBudget == calls < MaxImportCalls /\ calls' = calls + 1

\* plugin imports, good and bad, among other operations, inside and outside
\* suspensions and batches
NextImport ==
    \/ ImportBudget /\ SuspendUpdates
    \/ ImportBudget /\ EnableUpdates
    \/ ImportBudget /\ \E b \in BOOLEAN : BatchHistory(b)
    \/ ImportBudget /\ \E op \in PoolOps \cup ImportOps : ApplyOperation(op)
    \/ ImportBudget /\ \E op \in ImportOps : ImportPlugin(op)

SpecImport == Init /\ [][NextImport]_vars

\* the operations of the pool that add a page
PageOps == {o \in PoolOps : OpDef(o).kind = "addwidget"}

\* one more call that changes the tree, of at most MaxTreeCalls
TreeBudget == calls < MaxTreeCalls /\ calls' = calls + 1

\* a path is resolved in the tree that a call has just left; resolving
\* changes nothing, so that a second resolution in a row would find the same
\* tree
LookupCalls == {"resolveItem", "resolve", "resolveFullWidgetPath",
                "resolveFullSettingPath", "walkNodes"}
Lookup == last.call \notin LookupCalls /\ UNCHANGED calls

\* the widget tree only: it is built, wiped, and paths are resolved in it
NextTree ==
    \/ TreeBudget /\ MakeDefaultDoc
    \/ TreeBudget /\ Wipe
    \/ TreeBudget /\ \E op \in PageOps : ApplyOperation(op)
    \/ Lookup /\ \E w \in WidgetPaths(basewidget), where \in Wheres :
                     ResolveItem(w, where)
    \/ Lookup /\ \E w \in WidgetPaths(basewidget), where \in Wheres :
                     Resolve(w, where)
    \/ Lookup /\ \E path \in FullPaths : ResolveFullWidgetPath(path)
    \/ Lookup /\ \E path \in FullPaths : ResolveFullSettingPath(path)
    \/ Lookup /\ \E w \in WidgetPaths(basewidget),
                     nodetypes \in SUBSET NodeTypes : WalkNodes(w, nodetypes)

SpecTree == Init /\ [][NextTree]_vars

\* the first Operation object that has not been applied yet
FreshOps == {o \in 1 .. MaxOps : ~ops[o].done /\
                \A p \in 1 .. o - 1 : ops[p].done}

\* one more call while changeset is below MaxHistChangeset
HistBudget == changeset < MaxHistChangeset /\ UNCHANGED calls

\* history only: new Operation objects applied one after another, undone and
\* redone
NextHist ==
    \/ HistBudget /\ \E op \in FreshOps : ApplyOperation(op)
    \/ HistBudget /\ UndoOperation
    \/ HistBudget /\ RedoOperation

SpecHist == Init /\ [][NextHist]_vars

(* ---------------------------------------------------------------------- *)
(* Properties                                                              *)
(* ---------------------------------------------------------------------- *)
\* the last k entries of s, all of s when it is shorter
Recent(s, k) == [i \in 1 .. Min(Len(s), k) |-> s[Len(s) - Min(Len(s), k) + i]]

\* the applies of the current run were followed by undoOperation calls only
Undoing == run.phase \in {"undo", "empty"}

\* the content before the last k applies of the current run
BeforeLast(k) == run.snaps[Len(run.snaps) - k + 1]

\* C1 as claimed: after n applies followed by n undoOperation calls, for
\* every n, the dataset store and the widget tree are what they were before
\* the n applies.
C1_AnyLength ==
    (Undoing /\ run.undos <= Len(run.snaps))
        => Content(Doc) = BeforeLast(run.undos)

\* C1 amended: after n applies (no batch open) followed by n undoOperation
\* calls, with n at most 10, the dataset store and the widget tree are what
\* they were before the n applies.
C1_UpToTen ==
    (Undoing /\ run.undos <= Len(run.snaps) /\ run.undos <= 10)
        => Content(Doc) = BeforeLast(run.undos)

\* ten undos after more than ten applies brought back an earlier content
C1_Witness ==
    /\ run.phase = "undo"
    /\ run.undos = 10
    /\ Len(run.snaps) > 10
    /\ Content(Doc) = BeforeLast(10)
    /\ Content(Doc) # BeforeLast(9)

\* C2: the undo stack never holds more than 10 operations, and an
\* applyOperation with no batch open leaves on it the last 10 of the previous
\* entries followed by the operation just applied.
C2_UndoStackRecent ==
    /\ [](Len(historyundo) <= 10)
    /\ [][(/\ last'.call = "applyOperation"
           /\ last'.exc = "none"
           /\ Len(historybatch) = 0)
          => historyundo' = Recent(historyundo \o <<last'.op>>, 10)]_vars

\* an apply on a full undo stack discarded the oldest entry
C2_Witness ==
    /\ last.call = "applyOperation"
    /\ last.exc = "none"
    /\ last.pre.undo = 10
    /\ Len(historyundo) = 10
    /\ Last(historyundo) = last.op
    /\ historyundo[1] > 1

\* C3: in a run of n applies that started on an empty undo stack, an
\* undoOperation succeeds exactly when fewer than min(n, 10) undos have
\* succeeded since, and otherwise fails with the empty-history IndexError.
C3_UndoCount ==
    [][(/\ run.fromEmpty
        /\ run.phase \in {"apply", "undo"}
        /\ last'.call = "undoOperation")
       => /\ last'.exc \in {"none", "IndexError"}
          /\ last'.exc = "none" <=> run.undone < Min(Len(run.snaps), 10)]_vars

\* more than ten applies from an empty history, ten undos, and the eleventh
\* failed
C3_Witness ==
    /\ run.fromEmpty
    /\ run.phase = "empty"
    /\ Len(run.snaps) > 10
    /\ run.undone = 10
    /\ last.exc = "IndexError"

\* C4: after every successful applyOperation the redo stack is empty.
C4_RedoCleared ==
    (last.call = "applyOperation" /\ last.exc = "none")
        => historyredo = <<>>

\* an apply into an open batch found a non-empty redo stack
C4_Witness ==
    /\ last.call = "applyOperation"
    /\ last.exc = "none"
    /\ last.pre.redo > 0
    /\ last.pre.batch > 0
    /\ historyredo = <<>>

\* C5: redoOperation fails with IndexError on an empty redo stack; when it
\* succeeds the operation it popped is the last entry of the undo stack and
\* the redo stack is empty, so a redoOperation that directly follows a
\* successful one fails.
C5_RedoOnce ==
    [][last'.call = "redoOperation"
       => /\ historyredo = <<>> => last'.exc = "IndexError"
          /\ (last'.exc = "none" /\ Len(historybatch) = 0)
                => /\ historyredo' = <<>>
                   /\ historyundo' # <<>>
                   /\ Last(historyundo') = Last(historyredo)
          /\ (last.call = "redoOperation" /\ last.exc = "none")
                => last'.exc = "IndexError"]_vars

\* a redo succeeded with two or more operations undone, dropping the others
C5_Witness ==
    /\ last.call = "redoOperation"
    /\ last.exc = "none"
    /\ last.pre.redo >= 2
    /\ historyredo = <<>>

\* the last call was the enableUpdates that closed the outermost suspension
OutermostEnable ==
    /\ last.call = "enableUpdates"
    /\ last.exc = "none"
    /\ Len(suspendupdates) = 0

\* C6: while a suspension is open no call emits a modified notification; the
\* enableUpdates that closes the outermost suspension emits at most one, and
\* none when no call changed the document inside the suspension.
C6_Coalesced ==
    /\ Len(suspendupdates) > 0 => emitted = <<>>
    /\ OutermostEnable => Len(emitted) <= 1
    /\ (OutermostEnable /\ ~scope.mutated) => emitted = <<>>

\* a nested suspension with a mutation inside closed with one notification
C6_Witness ==
    /\ OutermostEnable
    /\ scope.nested
    /\ scope.mutated
    /\ Len(emitted) = 1

\* C7: every modified notification is emitted with the suspend stack empty,
\* and a call made while a suspension is open and leaving one open emits none.
C7_EmitOnlyUnsuspended ==
    /\ \A i \in 1 .. Len(emitted) : emitted[i].depth = 0
    /\ (last.pre.depth > 0 /\ Len(suspendupdates) > 0) => emitted = <<>>

\* setData changed the document inside a suspension and nothing was emitted
C7_Witness ==
    /\ last.call = "setData"
    /\ last.pre.depth > 0
    /\ changeset > last.pre.changeset
    /\ emitted = <<>>

ScopedCalls == {"applyOperation", "undoOperation", "redoOperation",
                "reloadLinkedDatasets"}

\* C8: applyOperation, undoOperation, redoOperation and reloadLinkedDatasets
\* leave the suspend stack as deep as they found it, whether they return or
\* raise.
C8_DepthRestored ==
    last.call \in ScopedCalls => Len(suspendupdates) = last.pre.depth

\* an operation whose do raised, applied with no suspension open
C8_Witness ==
    /\ last.call = "applyOperation"
    /\ last.exc = "RuntimeError"
    /\ last.pre.depth = 0
    /\ Len(suspendupdates) = 0
    /\ changeset > last.pre.changeset

\* C9: a successful applyOperation, undoOperation or redoOperation leaves
\* changeset greater than it found it.
C9_ChangesetGrows ==
    (last.call \in {"applyOperation", "undoOperation", "redoOperation"}
        /\ last.exc = "none")
        => changeset > last.pre.changeset

\* inside a suspension, an operation whose do never calls setModified
C9_Witness ==
    /\ last.call = "applyOperation"
    /\ last.exc = "none"
    /\ OpDef(last.op).kind = "addwidget"
    /\ last.pre.depth > 0
    /\ changeset = last.pre.changeset + 1

C11_InnermostBatch ==
    [][/\ (last'.call = "applyOperation" /\ last'.exc = "none")
          => IF Len(historybatch) > 0
             THEN /\ historyundo' = historyundo
                  /\ historybatch' =
                        Append(Front(historybatch),
                               Append(Last(historybatch), last'.op))
             ELSE /\ historybatch' = historybatch
                  /\ historyundo' # <<>>
                  /\ Last(historyundo') = last'.op
       /\ (last'.call = "batchHistory" /\ last'.exc = "none"
              /\ Len(historybatch') <= Len(historybatch))
          => /\ historybatch' = Front(historybatch)
             /\ historyundo' = historyundo]_vars

\* with an operation in the outer of two open batches, the next one went to
\* the inner batch
C11_Witness ==
    /\ last.call = "applyOperation"
    /\ last.exc = "none"
    /\ Len(historybatch) = 2
    /\ historybatch[1] # <<>>
    /\ Last(historybatch[2]) = last.op

\* C12: undoOperation on an empty undo stack and redoOperation on an empty
\* redo stack raise the empty-history IndexError and leave changeset, the
\* modified flag, the dataset store, the widget tree, the undo, redo and
\* batch stacks and the suspend stack as they were, and emit no modified
\* notification.
C12_EmptyHistoryFails ==
    [][(\/ last'.call = "undoOperation" /\ historyundo = <<>>
        \/ last'.call = "redoOperation" /\ historyredo = <<>>)
       => /\ last'.exc = "IndexError"
          /\ emitted' = <<>>
          /\ UNCHANGED <<changeset, modified, data, basewidget,
                         suspendupdates, historybatch, historyundo,
                         historyredo, ops>>]_vars

\* undoOperation failed on an empty undo stack of a modified document with
\* operations left to redo and no suspension open
C12_Witness ==
    /\ last.call = "undoOperation"
    /\ last.exc = "IndexError"
    /\ last.pre.undo = 0
    /\ last.pre.depth = 0
    /\ historyredo # <<>>
    /\ modified

\* the operations held by a stack
Entries(stack) == {stack[i] : i \in 1 .. Len(stack)}

\* every entry of the undo stack is applied and not undone since, every entry
\* of the redo stack is undone and not applied again since, and no operation
\* is on both stacks
StacksTrack ==
    /\ \A o \in Entries(historyundo) : opstatus[o].status = "applied"
    /\ \A o \in Entries(historyredo) : opstatus[o].status = "undone"
    /\ Entries(historyundo) \cap Entries(historyredo) = {}

\* C13 as claimed: in every reachable state the undo stack holds applied,
\* not undone operations, the redo stack holds undone, not re-applied ones,
\* and no operation is on both, also when the same Operation object is
\* applied more than once.
C13_AnyObjects == StacksTrack

\* C13 amended: as long as no Operation object has been passed to
\* applyOperation more than once, the undo stack holds applied, not undone
\* operations, the redo stack holds undone, not re-applied ones, and no
\* operation is on both.
C13_ObjectsAppliedOnce ==
    (\A o \in AllOps : opstatus[o].applies <= 1) => StacksTrack

\* two separate operations, one on the undo stack and one on the redo stack
C13_Witness ==
    /\ \A o \in AllOps : opstatus[o].applies <= 1
    /\ historyundo # <<>>
    /\ historyredo # <<>>
    /\ last.call = "undoOperation"

\* the last call was the second of renameDataset(a, b), renameDataset(b, a),
\* both successful
RenamedBack ==
    /\ last.call = "renameDataset"
    /\ last.exc = "none"
    /\ last.args.back

\* C14 as claimed: renameDataset(a, b) directly followed by
\* renameDataset(b, a) leaves the store with the bindings and the tags it had
\* before the two calls, whether or not b was a key of the store.
C14_RenameBackAnyName == RenamedBack => data = last.args.orig

\* C14 amended: renameDataset(a, b) directly followed by renameDataset(b, a)
\* leaves the store with the bindings and the tags it had before the two
\* calls when b was a itself or was not a key of the store.
C14_RenameBackNewName ==
    (RenamedBack /\ (last.args.old = last.args.new
                        \/ last.args.old \notin DOMAIN last.args.orig))
        => data = last.args.orig

\* a tagged dataset was renamed to an unused name and back, next to another
\* dataset
C14_Witness ==
    /\ RenamedBack
    /\ last.args.old # last.args.new
    /\ last.args.old \notin DOMAIN last.args.orig
    /\ data[last.args.new].tags # {}
    /\ Cardinality(DOMAIN data) > 1
    /\ data = last.args.orig

\* store is store0 with the dataset of oldname moved to newname: it is bound
\* to newname only, and every other name is bound as in store0
Moved(store0, oldname, newname, store) ==
    /\ newname \in DOMAIN store
    /\ store[newname] = store0[oldname]
    /\ oldname # newname => oldname \notin DOMAIN store
    /\ \A n \in AllNames \ {oldname, newname} :
          /\ n \in DOMAIN store <=> n \in DOMAIN store0
          /\ n \in DOMAIN store => store[n] = store0[n]

\* C15: the store that the listeners of a modified notification find during
\* a successful renameDataset, and the store after the call, have the moved
\* dataset under the new name only (never under both names or under
\* neither) and every other name bound as before.
C15_RenameAtomic ==
    (last.call = "renameDataset" /\ last.exc = "none")
        => /\ Moved(last.args.store, last.args.old, last.args.new, data)
           /\ \A i \in 1 .. Len(emitted) :
                 Moved(last.args.store, last.args.old, last.args.new,
                       emitted[i].data)

\* a rename to another name, next to a third dataset, notified its listeners
C15_Witness ==
    /\ last.call = "renameDataset"
    /\ last.exc = "none"
    /\ last.args.old # last.args.new
    /\ DOMAIN last.args.store \ {last.args.old, last.args.new} # {}
    /\ emitted # <<>>

\* C16: renameDataset(old, new) with old not in the store raises KeyError and
\* leaves the store, the modified flag and changeset as they were, and emits
\* no modified notification.
C16_RenameMissing ==
    [][(last'.call = "renameDataset" /\ last'.args.old \notin DOMAIN data)
       => /\ last'.exc = "KeyError"
          /\ emitted' = <<>>
          /\ UNCHANGED <<data, modified, changeset>>]_vars

\* a rename of a missing name to a name in use failed with no suspension
\* open
C16_Witness ==
    /\ last.call = "renameDataset"
    /\ last.exc = "KeyError"
    /\ last.pre.depth = 0
    /\ last.args.old \notin DOMAIN data
    /\ last.args.new \in DOMAIN data

\* the place of a section in the order of the claim
Rank(kind) ==
    CASE kind = "header" -> 1
      [] kind = "importpath" -> 2
      [] kind = "customs" -> 3
      [] kind = "link" -> 4
      [] kind = "data" -> 5
      [] kind = "tag" -> 6
      [] kind = "tree" -> 7

\* the positions of the statements of a kind
Where(text, kind) == {i \in 1 .. Len(text) : text[i].kind = kind}

\* the statement defines the dataset called name: its data block, or the
\* declaration of the file it is linked to
Defines(stmt, name, store) ==
    \/ stmt.kind = "data" /\ stmt.arg = name
    \/ stmt.kind = "link" /\ stmt.arg = store[name].linked

\* C17: the script written by saveToFile has its sections in the order
\* header, import path (exactly when the file object has a name), custom
\* definitions, linked-dataset declarations, data blocks, tag assignments,
\* widget tree; every dataset is defined by a declaration or a data block,
\* every declaration precedes every data block, and every tag assignment
\* follows the definition of every dataset it names.
C17_SectionOrder ==
    last.call = "saveToFile"
        => LET text == written.text
           IN  /\ \A i, j \in 1 .. Len(text) :
                     i < j => Rank(text[i].kind) <= Rank(text[j].kind)
               /\ Where(text, "header") = {1}
               /\ Where(text, "tree") = {Len(text)}
               /\ Cardinality(Where(text, "customs")) = 1
               /\ Where(text, "importpath") # {} <=> last.args.named
               /\ \A n \in DOMAIN data :
                     \E i \in 1 .. Len(text) : Defines(text[i], n, data)
               /\ \A i \in Where(text, "link"), j \in Where(text, "data") :
                     i < j
               /\ \A j \in Where(text, "tag") :
                     \A k \in 1 .. Len(text[j].names) :
                         /\ text[j].names[k] \in DOMAIN data
                         /\ \E i \in 1 .. j - 1 :
                               Defines(text[i], text[j].names[k], data)

\* a named file got a declaration, a data block and a tag assignment that
\* names a linked and a plain dataset
C17_Witness ==
    /\ last.call = "saveToFile"
    /\ last.args.named
    /\ Where(written.text, "link") # {}
    /\ Where(written.text, "data") # {}
    /\ \E j \in Where(written.text, "tag") :
          \E k, l \in 1 .. Len(written.text[j].names) :
              /\ data[written.text[j].names[k]].linked # "none"
              /\ data[written.text[j].names[l]].linked = "none"

\* a script without the statements of the kinds given
Without(text, kinds) == SelectSeq(text, LAMBDA st : st.kind \notin kinds)

\* the script saveToFile writes for the document as it is
TextScript == saveToFile(Doc, last.args.named).out.text

\* C18 as claimed, the data blocks that the datasets write themselves apart:
\* the script embedded by saveToHDF5File is the statement sequence saveToFile
\* writes for the same document, tag assignments included, in the same
\* order.
C18_SameScript ==
    last.call = "saveToHDF5File"
        => Without(written.text, {"data"}) = Without(TextScript, {"data"})

\* C18 amended, the data blocks apart: the script embedded by saveToHDF5File
\* is the statement sequence saveToFile writes for the same document without
\* its tag assignments, in the same order; the tag assignments are in the
\* Tags group instead, which holds under each tag that some dataset has the
\* dataset names of the tag assignment.
C18_ScriptWithoutTags ==
    last.call = "saveToHDF5File"
        => /\ Without(written.text, {"data"})
                = Without(TextScript, {"data", "tag"})
           /\ DOMAIN written.tags
                = {TextScript[i].arg : i \in Where(TextScript, "tag")}
           /\ \A i \in Where(TextScript, "tag") :
                 written.tags[TextScript[i].arg] = TextScript[i].names

\* an HDF5 file with a name got a script with a declaration and a Tags group
\* with two tags, one of them on two datasets
C18_Witness ==
    /\ last.call = "saveToHDF5File"
    /\ last.args.named
    /\ Where(written.text, "link") # {}
    /\ Where(written.text, "tag") = {}
    /\ Cardinality(DOMAIN written.tags) = 2
    /\ \E t \in DOMAIN written.tags : Len(written.tags[t]) = 2

ResolvedFrom(call, depth) ==
    /\ last.call = call
    /\ Len(last.args.from) = depth
    /\ ~Absolute(last.args.where)

\* C20: resolveItem from the root widget with a relative path that begins
\* with '..' ('../x' for every x) raises ValueError, and resolveItem and
\* resolve from a widget of the first level with the path '..' return the
\* root widget.
C20_ParentOfRoot ==
    /\ (ResolvedFrom("resolveItem", 0) /\ Head(last.args.where) = Up)
          => last.exc = "ValueError"
    /\ ((ResolvedFrom("resolveItem", 1) \/ ResolvedFrom("resolve", 1))
            /\ last.args.where = <<Up>>)
          => (last.exc = "none" /\ last.args.ret = Root)

\* resolveItem(root, '../x') failed where x is a page of the document
C20_Witness ==
    /\ ResolvedFrom("resolveItem", 0)
    /\ Len(last.args.where) = 2
    /\ Head(last.args.where) = Up
    /\ last.args.where[2] \in ChildNames(basewidget)
    /\ last.exc = "ValueError"

\* the LinkedFiles the last reloadLinkedDatasets call had to reload: the
\* files that datasets of the store were linked to, filtered by filenames
Selected ==
    {lf \in ReloadFiles :
        /\ \E n \in DOMAIN last.args.store : last.args.store[n].linked = lf
        /\ (last.args.nofilter \/ lf \in last.args.files)}

\* how many reloadLinks calls were made on lf
ReloadCount(lf) ==
    Cardinality({i \in DOMAIN last.res.reloads : last.res.reloads[i].lf = lf})

\* C21: reloadLinkedDatasets called with no suspension open reloads every
\* selected LinkedFile exactly once, all of them before any modified
\* notification is emitted, and emits exactly one notification when a
\* LinkedFile is selected and none otherwise.
C21_ReloadThenNotifyOnce ==
    (last.call = "reloadLinkedDatasets" /\ last.pre.depth = 0) =>
        /\ \A lf \in ReloadFiles :
               ReloadCount(lf) = IF lf \in Selected THEN 1 ELSE 0
        /\ \A i \in DOMAIN last.res.reloads : last.res.reloads[i].emits = 0
        /\ Len(emitted) = IF Selected = {} THEN 0 ELSE 1

\* two LinkedFiles reloaded, one of them shared by two datasets
C21_Witness ==
    /\ last.call = "reloadLinkedDatasets"
    /\ last.pre.depth = 0
    /\ Selected = ReloadFiles
    /\ Len(last.res.reloads) = 2
    /\ Cardinality({n \in DOMAIN last.args.store :
                       last.args.store[n].linked = "f1"}) = 2
    /\ Len(emitted) = 1

\* the names of the datasets that were linked to a selected LinkedFile
SelectedNames ==
    {n \in DOMAIN last.args.store : last.args.store[n].linked \in Selected}

\* the names of s are in sorted order
IsSorted(s) ==
    \A i, j \in DOMAIN s : i < j => NameRank(s[i]) < NameRank(s[j])

ImportFails(op) ==
    LET p == OpDef(op)
    IN  \/ ~p.registered
        \/ p.raises
        \/ \E i \in DOMAIN p.results :
               p.results[i].kind \notin {"Dataset1D", "Constant", "Function"}

\* C23: ImportFilePlugin returns normally even when the import fails; it has
\* then passed the error and its trace to the document log, and the undo
\* stack and the suspend stack are as they were before the call.
C23_ImportFailureLogged ==
    [][last'.call = "ImportFilePlugin" =>
          /\ last'.exc = "none"
          /\ ImportFails(last'.op) =>
                /\ Len(last'.res.logged) = 2
                /\ last'.res.logged[1] = "Error in plugin"
                /\ last'.res.logged[2]
                       \in {"ValueError", "PluginError", "RuntimeError"}
                /\ historyundo' = historyundo
                /\ suspendupdates' = suspendupdates
          /\ ~ImportFails(last'.op) => last'.res.logged = <<>>]_vars

\* a plugin returned a record of an unknown kind after a constant and a
\* dataset, while earlier operations could be undone and updates were
\* suspended
C23_Witness ==
    /\ last.call = "ImportFilePlugin"
    /\ last.op = 103
    /\ last.exc = "none"
    /\ last.res.logged = <<"Error in plugin", "RuntimeError">>
    /\ historyundo # <<>>
    /\ suspendupdates # <<>>

\* the arguments of the last call, a save, cannot be served: the mode is
\* unknown, or it is 'hdf5' and h5py is missing
BadSave(args) ==
    \/ args.mode \notin {"vsz", "hdf5"}
    \/ args.mode = "hdf5" /\ ~args.h5py

\* C24: save with a mode other than 'vsz' or 'hdf5', or with mode 'hdf5'
\* when h5py is missing, raises and leaves filename, modified, changeset and
\* the dataset store as they were; a save that succeeds sets filename to the
\* name given, and filename changes in no other save.
C24_BadSaveChangesNothing ==
    [][last'.call = "save" =>
          /\ BadSave(last'.args) =>
                /\ last'.exc = "RuntimeError"
                /\ filename' = filename
                /\ modified' = modified
                /\ changeset' = changeset
                /\ data' = data
          /\ ~BadSave(last'.args) =>
                /\ last'.exc = "none"
                /\ filename' = last'.args.fname
          /\ filename' # filename => last'.exc = "none"]_vars

\* an 'hdf5' save without h5py of a modified document that holds a dataset
\* and was never saved
C24_Witness ==
    /\ last.call = "save"
    /\ last.args.mode = "hdf5"
    /\ ~last.args.h5py
    /\ last.exc = "RuntimeError"
    /\ filename # last.args.fname
    /\ modified
    /\ data # EmptyData

\* the enableUpdates about to run pops the last snapshot, and that snapshot
\* differs from changeset
ClosesChanged ==
    /\ Len(suspendupdates) = 1
    /\ suspendupdates[1] # changeset

\* C25 as stated: enableUpdates that pops the last snapshot, different from
\* changeset, increases changeset by exactly one and emits exactly one
\* notification; otherwise it leaves changeset alone and emits nothing.
C25_BumpByOne ==
    [][last'.call = "enableUpdates" =>
          IF ClosesChanged
          THEN changeset' = changeset + 1 /\ Len(emitted') = 1
          ELSE changeset' = changeset /\ emitted' = <<>>]_vars

\* C25: enableUpdates that pops the last snapshot, different from changeset,
\* increases changeset by exactly two (its own increment, then the one of
\* setModified), sets modified and emits exactly one notification; otherwise
\* it leaves changeset and modified alone and emits nothing.
C25_BumpByTwo ==
    [][last'.call = "enableUpdates" =>
          IF ClosesChanged
          THEN /\ changeset' = changeset + 2
               /\ modified'
               /\ Len(emitted') = 1
          ELSE /\ changeset' = changeset
               /\ modified' = modified
               /\ emitted' = <<>>]_vars

\* the outermost suspension was closed after a change made inside it
C25_Witness ==
    /\ last.call = "enableUpdates"
    /\ last.pre.depth = 1
    /\ scope.mutated
    /\ changeset = last.pre.changeset + 2
    /\ Len(emitted) = 1

\* the step is a successful applyOperation made with no suspension open
OutermostApply ==
    /\ last'.call = "applyOperation"
    /\ last'.exc = "none"
    /\ Len(suspendupdates) = 0

\* C26 as stated: when the notification of an outermost applyOperation is
\* emitted, its listeners find the history as applyOperation leaves it: the
\* operation recorded and the redo stack cleared.
C26_RecordedBeforeNotify ==
    [][OutermostApply =>
          \A i \in DOMAIN emitted' :
              /\ emitted'[i].undo = historyundo'
              /\ emitted'[i].batch = historybatch'
              /\ emitted'[i].redo = <<>>]_vars

\* C26: when the one notification of an outermost applyOperation is emitted,
\* its listeners find the history as it was before the call: the operation
\* is recorded, and the redo stack cleared, after notifications were
\* re-enabled and before applyOperation returns.
C26_RecordedAfterNotify ==
    [][OutermostApply =>
          /\ Len(emitted') = 1
          /\ emitted'[1].undo = historyundo
          /\ emitted'[1].batch = historybatch
          /\ emitted'[1].redo = historyredo
          /\ historyredo' = <<>>
          /\ IF Len(historybatch) > 0
             THEN Last(Last(historybatch')) = last'.op
             ELSE Last(historyundo') = last'.op]_vars

\* the listeners of an outermost applyOperation found an operation to redo
\* that applyOperation then dropped
C26_Witness ==
    /\ last.call = "applyOperation"
    /\ last.exc = "none"
    /\ last.pre.depth = 0
    /\ Len(emitted) = 1
    /\ emitted[1].redo # <<>>
    /\ emitted[1].undo # historyundo
    /\ historyredo = <<>>

\* C27: a successful applyOperation invoked with no suspension open emits
\* exactly one modified notification, however many times the do of the
\* operation calls setData, deleteData or setModified, and an applyOperation
\* invoked while a suspension is open emits none.
C27_OneNotificationPerApply ==
    last.call = "applyOperation" =>
        /\ (last.pre.depth = 0 /\ last.exc = "none") => Len(emitted) = 1
        /\ last.pre.depth > 0 => emitted = <<>>

\* an import that stored two datasets, applied with no suspension open
C27_Witness ==
    /\ last.call = "applyOperation"
    /\ last.exc = "none"
    /\ last.pre.depth = 0
    /\ Len(last.res.outnames) = 2
    /\ changeset >= last.pre.changeset + 3
    /\ Len(emitted) = 1

\* the names of the full path the last call was given
FullNames == NonEmptyParts(last.args.where)

\* the full path leads to a widget of the tree
LeadsToWidget == FullNames \in WidgetPaths(basewidget)

\* the full path leads to a setting: the names of widgets from the root
\* down, then the names of settings groups, then the name of a setting
LeadsToSetting ==
    \E k \in 0 .. Len(FullNames) :
        /\ SubSeq(FullNames, 1, k) \in WidgetPaths(basewidget)
        /\ SettingKind(SubSeq(FullNames, k + 1, Len(FullNames))) = "setting"

\* C28: resolveFullWidgetPath fails with an AssertionError for every
\* absolute path that does not lead to a widget, and resolveFullSettingPath
\* for every absolute path that does not lead to a setting, the paths that
\* end at a widget or at a settings group among them; neither fails in any
\* other way.
C28_AssertionOnly ==
    /\ last.call = "resolveFullWidgetPath" =>
          last.exc = IF LeadsToWidget THEN "none" ELSE "AssertionError"
    /\ last.call = "resolveFullSettingPath" =>
          last.exc = IF LeadsToSetting THEN "none" ELSE "AssertionError"

\* the calls the last walkNodes made to tocall
Visits == last.res.visits

IsPrefix(s, t) == Len(s) <= Len(t) /\ SubSeq(t, 1, Len(s)) = s

\* node m lies below node n in the tree: inside the subtree of a child widget
\* of the widget n, inside the settings of the widget n, or inside the
\* settings group n
Below(m, n) ==
    /\ m # n
    /\ IF n.kind = "widget"
       THEN IsPrefix(n.wpath, m.wpath)
       ELSE m.wpath = n.wpath /\ m.kind # "widget"
                /\ IsPrefix(n.spath, m.spath)

\* the position of the child named name among the children of the widget at
\* wpath
ChildIndex(wpath, name) ==
    LET w == WidgetAt(basewidget, wpath)
    IN  CHOOSE i \in 1 .. Len(w.children) : w.children[i].name = name

\* the nodes of the subtree of the widget at wpath, of the kinds asked for
NodesBelow(wpath, nodetypes) ==
    {n \in {Obj(k, q, sp) : k \in nodetypes,
                            q \in WidgetPaths(basewidget),
                            sp \in {<<>>, <<ASetting>>, <<AGroup>>,
                                    <<AGroup, ASetting>>}} :
        /\ IsPrefix(wpath, n.wpath)
        /\ IF n.kind = "widget" THEN n.spath = <<>>
           ELSE SettingKind(n.spath) = n.kind}

\* C29: walkNodes reports every node of the subtree once; a widget or a
\* settings group before everything below it; the subtrees of the child
\* widgets of a widget in child order and all of them before the settings of
\* the widget; and the entries of a settings group in sorted name order.
C29_PreOrderSettingsLast ==
    last.call = "walkNodes" =>
        /\ {Visits[i].node : i \in DOMAIN Visits}
              = NodesBelow(last.args.from, last.args.nodetypes)
        /\ \A i, j \in DOMAIN Visits :
              /\ (i # j) => Visits[i].node # Visits[j].node
              /\ Below(Visits[j].node, Visits[i].node) => i < j
              /\ LET m == Visits[i].node
                     n == Visits[j].node
                 IN  \A w \in WidgetPaths(basewidget) :
                        /\ (/\ IsPrefix(w, m.wpath) /\ Len(m.wpath) > Len(w)
                            /\ n.wpath = w /\ n.kind # "widget") => i < j
                        /\ (/\ IsPrefix(w, m.wpath) /\ Len(m.wpath) > Len(w)
                            /\ IsPrefix(w, n.wpath) /\ Len(n.wpath) > Len(w)
                            /\ ChildIndex(w, m.wpath[Len(w) + 1])
                                  < ChildIndex(w, n.wpath[Len(w) + 1]))
                               => i < j
                        /\ (/\ m.wpath = w /\ n.wpath = w
                            /\ m.spath # <<>> /\ n.spath # <<>>
                            /\ m.spath[1] < n.spath[1]) => i < j

\* a walk over everything from the root of a document of two pages, the
\* first of which holds a graph
C29_Witness ==
    /\ last.call = "walkNodes"
    /\ last.args.from = <<>>
    /\ last.args.nodetypes = NodeTypes
    /\ Len(basewidget.children) = 2
    /\ <<1, 1>> \in WidgetPaths(basewidget)
    /\ Len(Visits) = 20

\* the path of a node as the names from the root make it: '/' alone for the
\* root widget and its settings group, else '/' and the names joined by '/'
NamesPath(node) ==
    IF node.wpath \o node.spath = <<>>
    THEN RootPath
    ELSE <<Empty>> \o node.wpath \o node.spath

\* C30: in a walk of all node kinds from the root of the document every node
\* is reported under '/' followed by the names from the root to the node
\* joined by '/', so that no path is empty or holds '//', and the root
\* widget and its settings group are reported under '/'.
C30_PathsFromRoot ==
    (last.call = "walkNodes" /\ last.args.from = <<>>
        /\ last.args.nodetypes = NodeTypes) =>
        \A i \in DOMAIN Visits : Visits[i].path = NamesPath(Visits[i].node)

\* the position of a tag in sorted order
TagRank(t) == CHOOSE i \in 1 .. Len(SortedTags) : SortedTags[i] = t

\* the tags carried by the datasets now in the store
CurrentTags == UNION {data[n].tags : n \in DOMAIN data}

\* the TagDatasets statements of the script the last call wrote
TagStmts == SelectSeq(written.text, LAMBDA st : st.kind = "tag")

\* C31: datasetTags returns, sorted and without duplicates, exactly the tags
\* carried by the datasets now in the store, and the script saved holds one
\* TagDatasets statement for each such tag, in sorted tag order, that lists
\* in sorted order exactly the names of the datasets now carrying the tag.
C31_TagsFromStore ==
    /\ last.call = "datasetTags" =>
          /\ {last.res.tags[i] : i \in DOMAIN last.res.tags} = CurrentTags
          /\ \A i, j \in DOMAIN last.res.tags :
                 i < j => TagRank(last.res.tags[i]) < TagRank(last.res.tags[j])
    /\ last.call = "saveToFile" =>
          /\ {TagStmts[i].arg : i \in DOMAIN TagStmts} = CurrentTags
          /\ \A i, j \in DOMAIN TagStmts :
                 i < j => TagRank(TagStmts[i].arg) < TagRank(TagStmts[j].arg)
          /\ \A i \in DOMAIN TagStmts :
                 /\ IsSorted(TagStmts[i].names)
                 /\ {TagStmts[i].names[k] : k \in DOMAIN TagStmts[i].names}
                       = {n \in DOMAIN data : TagStmts[i].arg \in data[n].tags}

\* two tags saved from a store of two datasets after a third call changed
\* the store: one statement lists both names, the other one name
C31_Witness ==
    /\ last.call = "saveToFile"
    /\ calls = 4
    /\ DOMAIN data = {"b", "c"}
    /\ Len(TagStmts) = 2
    /\ TagStmts[1].names = <<"b", "c">>
    /\ TagStmts[2].names = <<"c">>

\* C32: when the do of an operation raises inside applyOperation, the call
\* raises, the undo stack, the open batches and the redo stack are as they
\* were, and a modified notification is emitted exactly when the do had
\* changed changeset before it failed and no suspension was open.
C32_FailedDoLeavesHistory ==
    [][(last'.call = "applyOperation" /\ opDo(Doc, last'.op).exc # "none") =>
          /\ last'.exc = opDo(Doc, last'.op).exc
          /\ historyundo' = historyundo
          /\ historybatch' = historybatch
          /\ historyredo' = historyredo
          /\ emitted' # <<>> <=>
                /\ opDo(Doc, last'.op).d.changeset # changeset
                /\ suspendupdates = <<>>]_vars

\* a do that failed after it had stored a dataset, while an operation could
\* be undone and another redone: one notification
C32_Witness ==
    /\ last.call = "applyOperation"
    /\ last.exc = "RuntimeError"
    /\ last.pre.depth = 0
    /\ historyundo # <<>>
    /\ historyredo # <<>>
    /\ Len(emitted) = 1

\* C33: the undo stack and the redo stack together never hold more than ten
\* operations, whatever calls of applyOperation, undoOperation, redoOperation
\* and clearHistory were made and whether or not they failed.
C33_HistoryAtMostTen == Len(historyundo) + Len(historyredo) <= 10

\* ten operations are kept after many calls, some of them to undo and some
\* to redo
C33_Witness ==
    /\ Len(historyundo) + Len(historyredo) = 10
    /\ Len(historyundo) >= 2
    /\ Len(historyredo) >= 2
    /\ changeset > 36

\* C34: when the undo of the operation raises inside undoOperation the
\* operation is still on top of the undo stack afterwards, and when its do
\* raises inside redoOperation it is still on top of the redo stack.
C34_FailedUndoKeepsHistory ==
    [][/\ (/\ last'.call = "undoOperation"
           /\ historyundo # <<>>
           /\ last'.exc # "none") => historyundo' = historyundo
       /\ (/\ last'.call = "redoOperation"
           /\ historyredo # <<>>
           /\ last'.exc # "none") => historyredo' = historyredo]_vars

\* calls that save the document
SaveCalls == {"saveToFile", "saveToHDF5File", "save"}

\* calls that change the content of the document
MutatingCalls == {"setData", "deleteData", "renameDataset", "applyOperation",
                  "undoOperation", "redoOperation", "reloadLinkedDatasets"}

\* C35: after a successful save the modified flag is false, and the call that
\* follows the save leaves it false unless it is a mutating call; closing a
\* suspension that was open during the save is such a call.
C35_SavedStaysClean ==
    [][/\ (last'.call \in SaveCalls /\ last'.exc = "none")
           => modified' = FALSE
       /\ (/\ last.call \in SaveCalls
           /\ last.exc = "none"
           /\ last'.call \notin MutatingCalls) => modified' = FALSE]_vars

\* calls that run an operation against the document
HistoryCalls == {"applyOperation", "undoOperation", "redoOperation"}

C37_BackReferencesMatch ==
    \A n \in DOMAIN data :
        data[n].username = n /\ data[n].document = "self"

====
